---------------------------- MODULE Spec2Model ----------------------------
(***************************************************************************)
(* Zero-Trust IoT control plane (shashi26-alt/SDN-v2).                     *)
(*                                                                         *)
(* The module models these parts of the repository as state machines over  *)
(* one set of variables:                                                   *)
(*   - the pending-admission table (network_monitor/pending_devices.py),   *)
(*     driven through the PendingDeviceManager API          (SpecPending)  *)
(*   - the controller's token/session handlers together with the identity  *)
(*     store, the certificate files and the admission workflow             *)
(*     (controller.py, identity_manager)        (SpecAdmit, SpecSession)   *)
(*   - the trust scorer, the policy adapter, the alert handlers and the    *)
(*     traffic orchestrator (trust_evaluator, ryu_controller,              *)
(*     zero_trust_integration.py)             (SpecScorer, SpecWorkers)    *)
(*   - the identity store driven through its own API      (SpecIdentity)   *)
(*   - the admission workflow on its own                    (SpecQueue)    *)
(*   - POST /data with the rate limiter's packet times       (SpecRate)    *)
(*   - the admission poller and the WiFi detector         (SpecMonitor)    *)
(*   - the score history kept by the trust scorer's threads                *)
(*     (trust_scorer.py, identity_database.py)            (SpecHistory)    *)
(*   - the profiling window and its monitor thread                         *)
(*     (identity_manager/device_onboarding.py)           (SpecProfiler)    *)
(*   - the flow-statistics poller and the anomaly detector                 *)
(*     (heuristic_analyst)                               (SpecDetector)    *)
(*   - the start and stop of the background loops           (SpecLoops)    *)
(*   - the analyst monitor replaying the detector's alerts (SpecReplay)    *)
(*   - the attestation thread (device_attestation.py)      (SpecAttest)    *)
(*   - the flow analyzer's reply handler (flow_analyzer.py) (SpecFlows)    *)
(*   - an approve and a reject request served concurrently   (SpecRace)    *)
(*   - the call stacks of the background threads            (SpecCalls)    *)
(***************************************************************************)
EXTENDS Integers, Sequences, FiniteSets, TLC

(***************************************************************************)
(* Bounds of the model                                                     *)
(***************************************************************************)
\* number of clock advances explored
MaxTicks == 2
\* number of session tokens issued
MaxTokens == 2

(***************************************************************************)
(* Program constants                                                       *)
(***************************************************************************)
SESSION_TIMEOUT == 300
ALLOW_INSECURE_AUTO_AUTH == FALSE

DeviceIds == {"d1", "d2"}
Macs == {"m1", "m2"}
\* a request field that was not supplied (Python None)
None == "None"

STATUS_PENDING == "pending"
STATUS_APPROVED == "approved"
STATUS_REJECTED == "rejected"
STATUS_ONBOARDED == "onboarded"

(***************************************************************************)
(* Python dict helpers: a dict is a function whose DOMAIN is its key set   *)
(***************************************************************************)
Put(f, k, v) == [x \in (DOMAIN f) \cup {k} |-> IF x = k THEN v ELSE f[x]]
Del(f, k) == [x \in (DOMAIN f) \ {k} |-> f[x]]
EmptyDict == [x \in {} |-> 0]

VARIABLES
    \* network_monitor/pending_devices.py
    pending_devices,     \* table pending_devices: mac -> [status, device_id]
    device_history,      \* table device_history: sequence of [mac, device_id, action]
    \* identity_manager
    devices,             \* table devices: device_id -> [mac, status, cert, trust_score]
    cert_files,          \* device ids whose <id>_cert.pem / <id>_key.pem exist
    \* controller.py
    authorized_devices,  \* dict device_id -> BOOLEAN
    device_tokens,       \* dict device_id -> [token, last_activity]
    now,                 \* time.time()
    ticks,               \* clock advances made so far
    next_token,          \* the next fresh uuid4
    packet_counts,       \* dict device_id -> list of the times of its packets
    submissions,         \* POST /data requests handled with the packet times kept
    resp,                \* the last call and what it returned
    \* history variables used by the properties
    last_issued,         \* dict device_id -> token most recently issued to it
    revoked_since,       \* device ids revoked and not admitted again since
    invalidated          \* tokens that were held by a device when it was revoked

VARIABLES
    \* trust_evaluator, ryu_controller, zero_trust_integration.py
    device_scores,       \* TrustScorer.device_scores: device_id -> score
    sdn_connected,       \* an SDN policy engine has been set on the framework
    device_policies,     \* SDNPolicyEngine.device_policies: device_id -> action
    alert_history,       \* AnomalyDetector.alert_history, per device and severity
    observed,            \* device ids whose score change reached the policy adapter
    adapter_first,       \* first action the adapter installed in the last handler
    \* worker threads of the framework
    workers,             \* thread -> [pc, cur, new, delta, rest]
    jobs,                \* jobs started by the threads so far
    write_log,           \* score writes in the order they were made
    notif_log,           \* (old, new) notifications in the order listeners got them
    due,                 \* device_id -> action owed since its last bucket change
    first_install        \* device_id -> [due, got] at the first install after it

VARIABLES
    \* network_monitor/wifi_detector.py
    arp_table,           \* MACs the ARP table of the WiFi interface lists now
    known_devices        \* WiFiDetector.known_devices

VARIABLES
    \* trust_evaluator/trust_scorer.py, identity_manager/identity_database.py
    score_history,       \* TrustScorer.score_history: device_id -> list of [ts, score]
    trust_score_history, \* rows of the trust_score_history table, in rowid order
    recorders            \* thread -> its position in adjust_trust_score's bookkeeping

VARIABLES
    \* identity_manager/behavioral_profiler.py, identity_manager/identity_database.py
    active_profiling,    \* device_id -> [start_time, packet_count, byte_count]
    behavioral_baselines \* rows of the behavioral_baselines table, by device_id

VARIABLES
    \* heuristic_analyst/anomaly_detector.py
    alert_log,           \* AnomalyDetector.alert_history, the list itself
    last_result          \* what the last call of detect_anomalies returned

VARIABLES
    \* zero_trust_integration.py, controller.py: the background loops
    running,             \* ZeroTrustFramework.running
    loops,               \* thread -> [pc, wake]: asleep until wake, or exited
    exit_deadline,       \* once stop() was called: thread -> the time it has to exit by
    processed_alerts,    \* monitor_analyst_alerts: ids of the alerts it has handled
    \* trust_evaluator/device_attestation.py
    device_attestations, \* device_id -> [last_check, last_heartbeat, status]
    \* heuristic_analyst/flow_analyzer.py
    flow_stats,          \* FlowAnalyzer.flow_stats: identifier -> list of flow samples
    historical_stats,    \* FlowAnalyzer.historical_stats: the rolling windows
    \* controller.py: a POST /api/approve_device request in progress
    approval,            \* [pc, mac, device_id, cert_ok, was_pending, outcome, reject]
    \* zero_trust_integration.py: the call stack of each background thread
    stacks               \* thread -> the functions it is executing, outermost first

scorerVars == <<device_scores, sdn_connected, device_policies, alert_history, observed,
                adapter_first>>
workerVars == <<workers, jobs, write_log, notif_log, due, first_install>>
monitorVars == <<arp_table, known_devices>>
historyVars == <<score_history, trust_score_history, recorders>>
profilerVars == <<active_profiling, behavioral_baselines>>
detectorVars == <<alert_log, last_result>>
loopVars == <<running, loops, exit_deadline>>
replayVars == <<processed_alerts>>
attestVars == <<device_attestations>>
flowVars == <<flow_stats, historical_stats>>
raceVars == <<approval>>
callVars == <<stacks>>
tailVars == <<loopVars, replayVars, attestVars, flowVars, raceVars, callVars>>
laterVars == <<profilerVars, detectorVars, tailVars>>
auxVars == <<historyVars, laterVars>>
trustVars == <<scorerVars, workerVars, monitorVars, auxVars>>

vars == <<pending_devices, device_history, devices, cert_files, authorized_devices,
          device_tokens, now, ticks, next_token, packet_counts, submissions, resp,
          last_issued, revoked_since, invalidated, trustVars>>

rateVars == <<packet_counts, submissions>>
pendingVars == <<pending_devices, device_history>>
identityVars == <<devices, cert_files>>
ctlVars == <<authorized_devices, device_tokens, now, ticks, next_token, rateVars>>
ghostVars == <<last_issued, revoked_since, invalidated>>

Resp(op, code) == [op |-> op, code |-> code]

\* the framework's threads that update trust scores
Workers == {"Attestation", "FlowStatisticsPoller"}
IdleWorker == [pc |-> "idle", cur |-> 0, new |-> 0, delta |-> 0, rest |-> <<>>]
IdleRecorder == [pc |-> "idle", ts |-> 0, score |-> 0]

NoResult == [device_id |-> None, seq |-> 0, is_anomaly |-> FALSE, anomaly_type |-> None,
             severity |-> None, severity_score |-> 0]

\* the framework's five monitoring threads and the controller's updater thread
Loops == {"HoneypotMonitor", "Attestation", "PolicyAdapter", "FlowStatisticsPoller",
          "AnalystMonitor", "ActivityCountUpdater"}
FrameworkLoops == Loops \ {"ActivityCountUpdater"}
NewLoop == [pc |-> "new", wake |-> 0]
\* the framework threads whose bodies reach the trust scorer or the policy engine
Threads == {"Attestation", "PolicyAdapter", "FlowStatisticsPoller", "AnalystMonitor"}
NoApproval == [pc |-> "idle", mac |-> None, device_id |-> None, cert_ok |-> FALSE,
               was_pending |-> FALSE, outcome |-> "none", reject |-> "none"]

InitTail ==
    /\ running = FALSE
    /\ loops = [w \in Loops |-> NewLoop]
    /\ exit_deadline = EmptyDict
    /\ processed_alerts = {}
    /\ device_attestations = EmptyDict
    /\ flow_stats = EmptyDict
    /\ historical_stats = EmptyDict
    /\ approval = NoApproval
    /\ stacks = [w \in Threads |-> <<>>]

InitLater ==
    /\ InitTail
    /\ active_profiling = EmptyDict
    /\ behavioral_baselines = EmptyDict
    /\ alert_log = <<>>
    /\ last_result = NoResult

InitAux ==
    /\ score_history = EmptyDict
    /\ trust_score_history = <<>>
    /\ recorders = [w \in Workers |-> IdleRecorder]
    /\ InitLater

InitCore ==
    /\ pending_devices = EmptyDict
    /\ device_history = <<>>
    /\ devices = EmptyDict
    /\ cert_files = {}
    /\ authorized_devices = EmptyDict
    /\ device_tokens = EmptyDict
    /\ now = 0
    /\ ticks = 0
    /\ next_token = 1
    /\ packet_counts = EmptyDict
    /\ submissions = 0
    /\ resp = Resp("init", 0)
    /\ last_issued = EmptyDict
    /\ revoked_since = {}
    /\ invalidated = {}
    /\ device_scores = EmptyDict
    /\ sdn_connected = FALSE
    /\ device_policies = EmptyDict
    /\ alert_history = EmptyDict
    /\ observed = {}
    /\ adapter_first = "none"
    /\ workers = [w \in Workers |-> IdleWorker]
    /\ jobs = 0
    /\ write_log = <<>>
    /\ notif_log = <<>>
    /\ due = EmptyDict
    /\ first_install = EmptyDict
    /\ arp_table = {}
    /\ known_devices = {}

Init == InitCore /\ InitAux

(***************************************************************************)
(* PendingDeviceManager (network_monitor/pending_devices.py)               *)
(***************************************************************************)
RowStatus(m) == IF m \in DOMAIN pending_devices THEN pending_devices[m].status ELSE "none"

\* add_pending_device: a pending or approved row answers False; a rejected or
\* onboarded row makes the INSERT hit UNIQUE(mac_address) (IntegrityError, False)
add_pending_device_ok(m) == m \notin DOMAIN pending_devices

add_pending_device_table(m, d) ==
    IF add_pending_device_ok(m)
    THEN Put(pending_devices, m, [status |-> STATUS_PENDING, device_id |-> d])
    ELSE pending_devices

add_pending_device_history(m, d) ==
    IF add_pending_device_ok(m)
    THEN Append(device_history, [mac |-> m, device_id |-> d, action |-> "detected"])
    ELSE device_history

\* approve_device / reject_device: UPDATE ... WHERE mac_address = ? AND status = 'pending'
\* the UPDATE without its status condition: any row of the mac is approved
approve_device_any_status(m) == m \in DOMAIN pending_devices

approve_device_ok(m) == RowStatus(m) = STATUS_PENDING

SetStatus(tbl, m, s) == Put(tbl, m, [tbl[m] EXCEPT !.status = s])

approve_device_table(m) ==
    IF approve_device_ok(m) THEN SetStatus(pending_devices, m, STATUS_APPROVED)
    ELSE pending_devices

decision_history(m, act) ==
    IF RowStatus(m) = STATUS_PENDING
    THEN Append(device_history,
                [mac |-> m, device_id |-> pending_devices[m].device_id, action |-> act])
    ELSE device_history

\* the UPDATE of reject_device without its status condition
reject_device_any_status(m) == m \in DOMAIN pending_devices

reject_device_ok(m) == RowStatus(m) = STATUS_PENDING

reject_device_table(m) ==
    IF reject_device_ok(m) THEN SetStatus(pending_devices, m, STATUS_REJECTED)
    ELSE pending_devices

\* mark_onboarded: UPDATE ... WHERE mac_address = ?  (no condition on status,
\* no history row); returns True also when no row matched
mark_onboarded_table(tbl, m) ==
    IF m \in DOMAIN tbl THEN SetStatus(tbl, m, STATUS_ONBOARDED) ELSE tbl

PDM_add_pending_device(m, d) ==
    /\ pending_devices' = add_pending_device_table(m, d)
    /\ device_history' = add_pending_device_history(m, d)
    /\ resp' = Resp("add_pending_device", IF add_pending_device_ok(m) THEN 1 ELSE 0)
    /\ UNCHANGED <<identityVars, ctlVars, ghostVars>>
    /\ UNCHANGED trustVars

PDM_approve_device(m) ==
    /\ pending_devices' = approve_device_table(m)
    /\ device_history' = decision_history(m, "approved")
    /\ resp' = Resp("approve_device", IF approve_device_ok(m) THEN 1 ELSE 0)
    /\ UNCHANGED <<identityVars, ctlVars, ghostVars>>
    /\ UNCHANGED trustVars

PDM_reject_device(m) ==
    /\ pending_devices' = reject_device_table(m)
    /\ device_history' = decision_history(m, "rejected")
    /\ resp' = Resp("reject_device", IF reject_device_ok(m) THEN 1 ELSE 0)
    /\ UNCHANGED <<identityVars, ctlVars, ghostVars>>
    /\ UNCHANGED trustVars

PDM_mark_onboarded(m) ==
    /\ pending_devices' = mark_onboarded_table(pending_devices, m)
    /\ resp' = Resp("mark_onboarded", 1)
    /\ UNCHANGED <<device_history, identityVars, ctlVars, ghostVars>>
    /\ UNCHANGED trustVars

NextPending ==
    \/ \E m \in Macs, d \in DeviceIds : PDM_add_pending_device(m, d)
    \/ \E m \in Macs : PDM_approve_device(m)
    \/ \E m \in Macs : PDM_reject_device(m)
    \/ \E m \in Macs : PDM_mark_onboarded(m)

SpecPending == Init /\ [][NextPending]_vars

(***************************************************************************)
(* C1: the status of a pending-admission row changes only along            *)
(* pending -> approved, pending -> rejected and approved -> onboarded      *)
(* (a row is created as pending); rejected and onboarded rows never        *)
(* change again.                                                           *)
(***************************************************************************)
AllowedTransitions ==
    { <<"none", STATUS_PENDING>>,
      <<STATUS_PENDING, STATUS_APPROVED>>,
      <<STATUS_PENDING, STATUS_REJECTED>>,
      <<STATUS_APPROVED, STATUS_ONBOARDED>> }

C1_StatusMachine ==
    [][\A m \in Macs :
          RowStatus(m)' # RowStatus(m) => <<RowStatus(m), RowStatus(m)'>> \in AllowedTransitions]_vars


(***************************************************************************)
(* Identity store and certificate files                                    *)
(* (identity_manager/identity_database.py, certificate_manager.py,         *)
(*  device_onboarding.py)                                                  *)
(***************************************************************************)
get_device(d) == d \in DOMAIN devices

\* SELECT * FROM devices WHERE mac_address = ?  (mac_address is UNIQUE)
get_device_by_mac(m) == {d \in DOMAIN devices : devices[d].mac = m}

\* INSERT OR REPLACE keeping only the PRIMARY KEY conflict: rows of another
\* device id with the same mac_address stay
add_device_with_pk_only(tbl, d, m, certificate_path) ==
    LET kept == [x \in {y \in DOMAIN tbl : y # d} |-> tbl[x]]
        ts == IF d \in DOMAIN tbl THEN tbl[d].trust_score ELSE 70
    IN Put(kept, d, [mac |-> m, status |-> "active",
                     certificate_path |-> certificate_path, trust_score |-> ts])

\* INSERT OR REPLACE: the rows that collide on device_id or on mac_address
\* are deleted, the new row takes the column default status 'active';
\* certificate_path is FALSE when the caller leaves it None
add_device_with(tbl, d, m, certificate_path) ==
    LET kept == [x \in {y \in DOMAIN tbl : y # d /\ tbl[y].mac # m} |-> tbl[x]]
        ts == IF d \in DOMAIN tbl THEN tbl[d].trust_score ELSE 70
    IN Put(kept, d, [mac |-> m, status |-> "active",
                     certificate_path |-> certificate_path, trust_score |-> ts])

\* add_device as onboard_device calls it: certificate_path is always given
add_device(tbl, d, m) == add_device_with(tbl, d, m, TRUE)

\* CertificateManager.verify_certificate on <certs_dir>/<device_id>_cert.pem:
\* False when the file cannot be opened
verify_certificate(d) == d \in cert_files

verify_device_certificate(d) ==
    /\ get_device(d)
    /\ devices[d].certificate_path
    /\ verify_certificate(d)

\* DeviceOnboarding.onboard_device: refused for a device id already in the
\* store; cert_ok is whether generate_device_certificate succeeds
onboard_device_ok(d, cert_ok) == ~get_device(d) /\ cert_ok

onboard_device_devices(d, m, cert_ok) ==
    IF onboard_device_ok(d, cert_ok) THEN add_device(devices, d, m) ELSE devices

\* onboarding that writes no certificate file
onboard_device_files_none(d, cert_ok) == cert_files

onboard_device_files(d, cert_ok) ==
    IF onboard_device_ok(d, cert_ok) THEN cert_files \cup {d} ELSE cert_files

\* UPDATE devices SET status = ? WHERE device_id = ?
update_device_status(tbl, d, st) ==
    IF d \in DOMAIN tbl THEN Put(tbl, d, [tbl[d] EXCEPT !.status = st]) ELSE tbl

\* CertificateManager.revoke_certificate: os.remove of both files
revoke_certificate(d) == cert_files \ {d}

HeldTokens(d) == IF d \in DOMAIN device_tokens THEN {device_tokens[d].token} ELSE {}

\* DeviceOnboarding.revoke_device: touches the files and the store only
revoke_device(d) ==
    /\ cert_files' = revoke_certificate(d)
    /\ devices' = update_device_status(devices, d, "revoked")
    /\ resp' = Resp("revoke_device", 1)
    /\ revoked_since' = IF get_device(d) THEN revoked_since \cup {d} ELSE revoked_since
    /\ invalidated' = IF get_device(d) THEN invalidated \cup HeldTokens(d) ELSE invalidated
    /\ UNCHANGED <<pendingVars, ctlVars, last_issued>>
    /\ UNCHANGED trustVars

(***************************************************************************)
(* controller.py: POST /get_token                                          *)
(***************************************************************************)
dict_get(f, k) == IF k \in DOMAIN f THEN f[k] ELSE FALSE

\* if device_id not in packet_counts: packet_counts[device_id] = []
init_packet_counts(pc, d) == IF d \in DOMAIN pc THEN pc ELSE Put(pc, d, <<>>)

\* lines 483-497: certificate-based authorization
cert_authorized(d) == verify_device_certificate(d)

\* lines 500-515: the identity record by device id, else by mac; any status
\* but 'revoked' authorizes
identity_record(d, m) ==
    IF get_device(d) THEN {d}
    ELSE IF m # None THEN get_device_by_mac(m) ELSE {}

identity_authorized(d, m) ==
    \E r \in identity_record(d, m) : devices[r].status # "revoked"

\* lines 518-536: the pending row of the request's mac
pending_refused(m) ==
    /\ m # None
    /\ RowStatus(m) \in {STATUS_PENDING, STATUS_REJECTED}

pending_authorized(m) ==
    /\ m # None
    /\ RowStatus(m) \in {STATUS_APPROVED, STATUS_ONBOARDED}

\* the auto-authorization branch taken whatever the flag says
auto_authorized_any_flag(m) == m # None

\* lines 544-567: mac_clean has 12 hex digits for every mac of the model
auto_authorized(m) == ALLOW_INSECURE_AUTO_AUTH /\ m # None

\* the value of device_authorized at line 569; "refused" is the early 403
token_decision(d, m) ==
    IF cert_authorized(d) \/ identity_authorized(d, m) THEN "authorized"
    ELSE IF pending_refused(m) THEN "refused"
    ELSE IF pending_authorized(m) THEN "authorized"
    ELSE IF dict_get(authorized_devices, d) THEN "authorized"
    ELSE IF auto_authorized(m) THEN "auto"
    ELSE "unauthorized"

get_token(d, m) ==
    LET dec == token_decision(d, m)
        issue == dec \in {"authorized", "auto"}
    IN
    /\ next_token <= MaxTokens
    /\ IF issue
       THEN /\ device_tokens' = Put(device_tokens, d,
                                    [token |-> next_token, last_activity |-> now])
            /\ next_token' = next_token + 1
            /\ last_issued' = Put(last_issued, d, next_token)
            /\ resp' = Resp("get_token", 200)
            /\ authorized_devices' = IF dec = "auto" THEN Put(authorized_devices, d, TRUE)
                                     ELSE authorized_devices
            /\ packet_counts' = IF dec = "auto" THEN init_packet_counts(packet_counts, d)
                                ELSE packet_counts
            /\ UNCHANGED pendingVars
       ELSE /\ resp' = Resp("get_token", 403)
            \* lines 569-587: make the device visible in the pending list
            /\ IF dec = "unauthorized" /\ m # None /\ m \notin DOMAIN pending_devices
               THEN /\ pending_devices' = add_pending_device_table(m, d)
                    /\ device_history' = add_pending_device_history(m, d)
               ELSE UNCHANGED pendingVars
            /\ UNCHANGED <<authorized_devices, device_tokens, next_token, last_issued,
                           packet_counts>>
    /\ UNCHANGED <<identityVars, now, ticks, submissions, revoked_since, invalidated>>
    /\ UNCHANGED trustVars

(***************************************************************************)
(* controller.py: POST /auth and POST /data                                *)
(***************************************************************************)
token_matches(d, t) == d \in DOMAIN device_tokens /\ device_tokens[d].token = t

session_expired_ge(d) == now - device_tokens[d].last_activity >= SESSION_TIMEOUT

\* line 634: now - last_activity > SESSION_TIMEOUT
session_expired(d) == now - device_tokens[d].last_activity > SESSION_TIMEOUT

touch(d) == Put(device_tokens, d, [device_tokens[d] EXCEPT !.last_activity = now])

auth(d, t) ==
    /\ IF ~token_matches(d, t)
       THEN /\ resp' = Resp("auth", 403)
            /\ UNCHANGED device_tokens
       ELSE IF session_expired(d)
       THEN /\ device_tokens' = Del(device_tokens, d)
            /\ resp' = Resp("auth", 403)
       ELSE /\ device_tokens' = touch(d)
            /\ resp' = Resp("auth", 200)
    /\ UNCHANGED <<pendingVars, identityVars, authorized_devices, now, ticks, next_token,
                   rateVars, ghostVars>>
    /\ UNCHANGED trustVars

\* lines 670-688: onboarded and not revoked, else the static list
data_authorized(d) ==
    \/ get_device(d) /\ devices[d].status # "revoked"
    \/ dict_get(authorized_devices, d)

\* env stands for the checks after the session check: the maintenance window,
\* the rate limit and the simulated SDN policy ("pass" when all three let the
\* packet through); the list of packet times itself is kept by data_counted
DataEnv == {"pass", "maintenance", "rate_limit", "policy"}

data(d, t, env) ==
    /\ IF ~token_matches(d, t) \/ ~data_authorized(d)
       THEN /\ resp' = Resp("data", 403)
            /\ UNCHANGED device_tokens
       ELSE IF session_expired(d)
       THEN /\ device_tokens' = Del(device_tokens, d)
            /\ resp' = Resp("data", 403)
       ELSE IF env # "maintenance" /\ d \notin DOMAIN packet_counts
       THEN \* line 699: packet_counts[device_id] raises KeyError
            /\ resp' = Resp("data", 500)
            /\ UNCHANGED device_tokens
       ELSE IF env # "pass"
       THEN /\ resp' = Resp("data", 403)
            /\ UNCHANGED device_tokens
       ELSE /\ device_tokens' = touch(d)
            /\ resp' = Resp("data", 200)
    /\ UNCHANGED <<pendingVars, identityVars, authorized_devices, now, ticks, next_token,
                   rateVars, ghostVars>>
    /\ UNCHANGED trustVars


(***************************************************************************)
(* controller.py: operator endpoints                                       *)
(***************************************************************************)
\* POST /api/authorize_device (POST /update does the same): acts on the
\* in-memory structures only
api_authorize_device(d, action) ==
    /\ authorized_devices' = Put(authorized_devices, d, action = "authorize")
    /\ device_tokens' = IF action = "revoke" THEN Del(device_tokens, d) ELSE device_tokens
    /\ invalidated' = IF action = "revoke" THEN invalidated \cup HeldTokens(d) ELSE invalidated
    /\ revoked_since' = IF action = "authorize" THEN revoked_since \ {d} ELSE revoked_since
    /\ packet_counts' = IF action = "authorize" THEN init_packet_counts(packet_counts, d)
                        ELSE packet_counts
    /\ resp' = Resp("api_authorize_device", 200)
    /\ UNCHANGED <<pendingVars, identityVars, now, ticks, next_token, submissions,
                   last_issued>>
    /\ UNCHANGED trustVars

\* POST /onboard
onboard_route(d, m, cert_ok) ==
    /\ devices' = onboard_device_devices(d, m, cert_ok)
    /\ cert_files' = onboard_device_files(d, cert_ok)
    /\ revoked_since' = IF onboard_device_ok(d, cert_ok) THEN revoked_since \ {d}
                        ELSE revoked_since
    /\ packet_counts' = IF onboard_device_ok(d, cert_ok)
                        THEN init_packet_counts(packet_counts, d) ELSE packet_counts
    /\ resp' = Resp("onboard", IF onboard_device_ok(d, cert_ok) THEN 200 ELSE 400)
    /\ UNCHANGED <<pendingVars, authorized_devices, device_tokens, now, ticks, next_token,
                   submissions, last_issued, invalidated>>
    /\ UNCHANGED trustVars

\* AutoOnboardingService.approve_and_onboard as called by POST
\* /api/approve_device: approve the pending row, onboard its device id, mark
\* the row onboarded when onboarding succeeded
approve_and_onboard_ok(m, cert_ok) ==
    /\ approve_device_ok(m)
    /\ onboard_device_ok(pending_devices[m].device_id, cert_ok)

approve_route(m, cert_ok) ==
    /\ m \in DOMAIN pending_devices
    /\ LET d == pending_devices[m].device_id
           approved == approve_device_ok(m)
           ok == approve_and_onboard_ok(m, cert_ok)
       IN /\ pending_devices' = IF ok THEN mark_onboarded_table(approve_device_table(m), m)
                                ELSE approve_device_table(m)
          /\ device_history' = decision_history(m, "approved")
          /\ devices' = IF approved THEN onboard_device_devices(d, m, cert_ok) ELSE devices
          /\ cert_files' = IF approved THEN onboard_device_files(d, cert_ok) ELSE cert_files
          /\ authorized_devices' = IF ok THEN Put(authorized_devices, d, TRUE)
                                   ELSE authorized_devices
          /\ packet_counts' = IF ok THEN init_packet_counts(packet_counts, d)
                              ELSE packet_counts
          /\ revoked_since' = IF ok THEN revoked_since \ {d} ELSE revoked_since
          /\ resp' = Resp("approve", IF ok THEN 200 ELSE 400)
    /\ UNCHANGED <<device_tokens, now, ticks, next_token, submissions, last_issued,
                   invalidated>>
    /\ UNCHANGED trustVars

\* POST /api/reject_device
reject_route(m) ==
    /\ pending_devices' = reject_device_table(m)
    /\ device_history' = decision_history(m, "rejected")
    /\ resp' = Resp("reject", IF reject_device_ok(m) THEN 200 ELSE 400)
    /\ UNCHANGED <<identityVars, ctlVars, ghostVars>>
    /\ UNCHANGED trustVars

(***************************************************************************)
(* Controller restart: the module-level dicts start empty and              *)
(* authorized_devices is hydrated from the identity store                  *)
(***************************************************************************)
hydrated == [d \in {x \in DOMAIN devices :
                       devices[x].status = "active" \/ devices[x].certificate_path} |-> TRUE]

restart ==
    /\ authorized_devices' = hydrated
    /\ device_tokens' = EmptyDict
    /\ packet_counts' = [d \in DOMAIN hydrated |-> <<>>]
    /\ resp' = Resp("restart", 0)
    /\ UNCHANGED <<pendingVars, identityVars, now, ticks, next_token, submissions,
                   ghostVars>>
    /\ UNCHANGED trustVars

\* the clock: time.time() moves on between requests
TickSteps == {1, SESSION_TIMEOUT}

tick(dt) ==
    /\ ticks < MaxTicks
    /\ now' = now + dt
    /\ ticks' = ticks + 1
    /\ UNCHANGED <<pendingVars, identityVars, authorized_devices, device_tokens, next_token,
                   rateVars, resp, ghostVars>>
    /\ UNCHANGED trustVars

Tokens == 1 .. MaxTokens
CtlMacs == {"m1"}
MacArgs == CtlMacs \cup {None}
Switch == {"authorize", "revoke"}

\* admission: who is let in, by which of the three stores
NextAdmit ==
    \/ \E d \in DeviceIds, m \in MacArgs : get_token(d, m)
    \/ \E d \in DeviceIds, a \in Switch : api_authorize_device(d, a)
    \/ \E d \in DeviceIds, m \in CtlMacs, c \in BOOLEAN : onboard_route(d, m, c)
    \/ \E m \in CtlMacs, c \in BOOLEAN : approve_route(m, c)
    \/ \E m \in CtlMacs : reject_route(m)
    \/ \E d \in DeviceIds : revoke_device(d)
    \/ restart

SpecAdmit == Init /\ [][NextAdmit]_vars

\* sessions: tokens in use while the clock runs and devices are revoked
\* the device ids that go through onboarding in the session runs; the other
\* id asks for tokens under the same mac
SessionOnboarded == {"d1"}

NextSession ==
    \/ \E d \in SessionOnboarded, m \in CtlMacs : onboard_route(d, m, TRUE)
    \/ \E d \in DeviceIds, m \in CtlMacs : get_token(d, m)
    \/ \E d \in DeviceIds, t \in Tokens : auth(d, t)
    \/ \E d \in DeviceIds, t \in Tokens, env \in DataEnv : data(d, t, env)
    \/ \E d \in DeviceIds : api_authorize_device(d, "revoke")
    \/ \E d \in SessionOnboarded : revoke_device(d)
    \/ restart
    \/ \E dt \in TickSteps : tick(dt)

SpecSession == Init /\ [][NextSession]_vars

(***************************************************************************)
(* C2: POST /get_token issues a token for (device_id, mac) only if the     *)
(* device is active in the Identity Store, or is in the static allow-list, *)
(* or the pending row of the mac has status approved; in every other case  *)
(* the answer is 403 and no token is recorded.                             *)
(***************************************************************************)
IdentityActive(d, m) ==
    \/ get_device(d) /\ devices[d].status = "active"
    \/ m # None /\ \E r \in get_device_by_mac(m) : devices[r].status = "active"

Admitted(d, m) ==
    \/ IdentityActive(d, m)
    \/ dict_get(authorized_devices, d)
    \/ m # None /\ RowStatus(m) = STATUS_APPROVED

C2_TokenOnlyIfAdmitted ==
    [][\A d \in DeviceIds, m \in MacArgs :
          (get_token(d, m) /\ ~Admitted(d, m))
              => (resp'.code = 403 /\ device_tokens' = device_tokens)]_vars

(***************************************************************************)
(* C3: once a device is revoked (status revoked in the Identity Store, its *)
(* credential files removed) every later token request of that device is   *)
(* answered 403, also after a controller restart, until the device is      *)
(* admitted again.                                                         *)
(***************************************************************************)
C3_RevokedRefused ==
    [][\A d \in DeviceIds, m \in MacArgs :
          (get_token(d, m) /\ d \in revoked_since) => resp'.code = 403]_vars

(***************************************************************************)
(* C4: a token held by a device when the device is revoked is accepted by  *)
(* no later /auth or /data request.                                        *)
(***************************************************************************)
C4_RevokedTokenDead ==
    [][\A d \in DeviceIds, t \in Tokens :
          ((auth(d, t) \/ \E env \in DataEnv : data(d, t, env)) /\ t \in invalidated)
              => resp'.code # 200]_vars

(***************************************************************************)
(* C5: /auth answers authorized=true exactly when the presented token is   *)
(* the token most recently issued to the device id and the session's       *)
(* last_activity is at most SESSION_TIMEOUT seconds old.                   *)
(***************************************************************************)
C5_AuthIff ==
    [][\A d \in DeviceIds, t \in Tokens :
          auth(d, t) =>
              (resp'.code = 200 <=>
                  /\ d \in DOMAIN last_issued
                  /\ t = last_issued[d]
                  /\ d \in DOMAIN device_tokens
                  /\ now - device_tokens[d].last_activity <= SESSION_TIMEOUT)]_vars

\* /auth accepted a session exactly SESSION_TIMEOUT seconds after the token
\* was issued at time 0
C5_Witness ==
    /\ resp = Resp("auth", 200)
    /\ now = SESSION_TIMEOUT
    /\ ticks = 1
    /\ \E d \in DeviceIds :
          /\ d \in DOMAIN device_tokens
          /\ device_tokens[d].last_activity = SESSION_TIMEOUT
          /\ next_token = 2

(***************************************************************************)
(* Trust scorer (trust_evaluator/trust_scorer.py)                          *)
(***************************************************************************)
\* the device the trust runs are about
TrustDevices == {"d1"}

\* zero_trust_integration.py:60, config default of initial_trust_score
INITIAL_SCORE == 70

\* max(0, min(100, x))
clamp(x) == IF x < 0 THEN 0 ELSE IF x > 100 THEN 100 ELSE x

\* initialize_device: the stored score if the identity store has the device,
\* else the initial_score argument (<<>> is None), else self.initial_score
initialize_score(d, init) ==
    IF d \in DOMAIN devices THEN devices[d].trust_score
    ELSE IF init # <<>> THEN init[1]
    ELSE INITIAL_SCORE

\* UPDATE devices SET trust_score = ? WHERE device_id = ?
save_trust_score(tbl, d, score) ==
    IF d \in DOMAIN tbl THEN Put(tbl, d, [tbl[d] EXCEPT !.trust_score = score]) ELSE tbl

\* the score adjust_trust_score / set_trust_score start from: a device without
\* a record is initialized first
current_score(d) ==
    IF d \in DOMAIN device_scores THEN device_scores[d] ELSE initialize_score(d, <<>>)

\* SELECT device_id, trust_score FROM devices WHERE trust_score IS NOT NULL
load_all_trust_scores == [d \in DOMAIN devices |-> devices[d].trust_score]

behavioral_adjustment(severity) ==
    CASE severity = "low" -> -5
      [] severity = "medium" -> -15
      [] severity = "high" -> -30
      [] OTHER -> -10

ATTESTATION_ADJUSTMENT == -20

alert_adjustment(severity) ==
    CASE severity = "low" -> -10
      [] severity = "medium" -> -20
      [] severity = "high" -> -40
      [] OTHER -> -15

POSITIVE_ADJUSTMENT == 2

(***************************************************************************)
(* Policy adapter (trust_evaluator/policy_adapter.py) and the rule         *)
(* installer SDNPolicyEngine.apply_policy                                  *)
(***************************************************************************)
bucket_action(score) ==
    IF score < 30 THEN "quarantine"
    ELSE IF score < 50 THEN "deny"
    ELSE IF score < 70 THEN "redirect"
    ELSE "allow"

\* the last of the thresholds [30, 50, 70] the score reaches; 0 stands for None
threshold(score) ==
    IF score >= 70 THEN 70 ELSE IF score >= 50 THEN 50 ELSE IF score >= 30 THEN 30 ELSE 0

Abs(x) == IF x < 0 THEN -x ELSE x

\* on_trust_score_change: adapt when the threshold changed or the change is
\* of 10 points or more
\* the comparison taken strictly: a change of exactly 10 points does not count
adapter_acts_strict(old, new) == threshold(old) # threshold(new) \/ Abs(old - new) > 10

adapter_acts(old, new) == threshold(old) # threshold(new) \/ Abs(old - new) >= 10

\* adapt_policy_for_device calls apply_policy only with an engine set and a
\* device the identity module knows
adapter_installs(d) == sdn_connected /\ d \in DOMAIN devices

\* apply_policy without match_fields looks the device up itself
engine_installs(d) == sdn_connected /\ d \in DOMAIN devices

\* The handlers below run on a working copy of the device's part of the
\* state: its score, the action installed for it (or "none") and the first
\* action the adapter installed during the handler.
St(d) == [score |-> current_score(d),
          pol |-> IF d \in DOMAIN device_policies THEN device_policies[d] ELSE "none",
          first |-> "none"]

adapt_policy_for_device(st, d) ==
    IF adapter_installs(d)
    THEN [st EXCEPT !.pol = bucket_action(st.score),
                    !.first = IF st.first = "none" THEN bucket_action(st.score) ELSE st.first]
    ELSE st

on_trust_score_change(st, d, old) ==
    IF adapter_acts(old, st.score) THEN adapt_policy_for_device(st, d) ELSE st

\* adjust_trust_score and set_trust_score: clamp, write, notify the listener
adjust_trust_score(st, d, delta) ==
    on_trust_score_change([st EXCEPT !.score = clamp(st.score + delta)], d, st.score)

set_trust_score(st, d, score) ==
    on_trust_score_change([st EXCEPT !.score = clamp(score)], d, st.score)

apply_policy(st, d, action) ==
    IF engine_installs(d) THEN [st EXCEPT !.pol = action] ELSE st

\* what a handler leaves behind
Commit(st, d) ==
    /\ device_scores' = Put(device_scores, d, st.score)
    /\ devices' = save_trust_score(devices, d, st.score)
    /\ device_policies' = IF st.pol = "none" THEN device_policies
                          ELSE Put(device_policies, d, st.pol)
    /\ adapter_first' = st.first

trustFrame == <<pendingVars, cert_files, ctlVars, resp, ghostVars, workerVars, monitorVars,
                auxVars>>

\* ZeroTrustFramework.set_sdn_policy_engine
set_sdn_policy_engine ==
    /\ sdn_connected' = TRUE
    /\ UNCHANGED <<devices, device_scores, device_policies, alert_history, observed,
                   adapter_first, trustFrame>>

\* TrustScorer.initialize_device: no clamp, no notification
TS_initialize_device(d, init) ==
    /\ device_scores' = Put(device_scores, d, initialize_score(d, init))
    /\ devices' = save_trust_score(devices, d, initialize_score(d, init))
    /\ UNCHANGED <<sdn_connected, device_policies, alert_history, observed, adapter_first,
                   trustFrame>>

TS_adjust_trust_score(d, delta) ==
    /\ Commit(adjust_trust_score(St(d), d, delta), d)
    /\ observed' = observed \cup {d}
    /\ UNCHANGED <<sdn_connected, alert_history, trustFrame>>

TS_set_trust_score(d, score) ==
    /\ Commit(set_trust_score(St(d), d, score), d)
    /\ observed' = observed \cup {d}
    /\ UNCHANGED <<sdn_connected, alert_history, trustFrame>>

\* the event hooks
TS_record_behavioral_anomaly(d, severity) ==
    TS_adjust_trust_score(d, behavioral_adjustment(severity))

TS_record_attestation_failure(d) == TS_adjust_trust_score(d, ATTESTATION_ADJUSTMENT)

TS_record_security_alert(d, severity) == TS_adjust_trust_score(d, alert_adjustment(severity))

TS_record_positive_behavior(d) == TS_adjust_trust_score(d, POSITIVE_ADJUSTMENT)

\* SDNPolicyEngine.handle_analyst_alert: redirect, then 20 points off
ANALYST_ALERT_ADJUSTMENT == -20

sdn_handle_analyst_alert(st, d, severity) ==
    IF severity \in {"medium", "high"}
    THEN adjust_trust_score(apply_policy(st, d, "redirect"), d, ANALYST_ALERT_ADJUSTMENT)
    ELSE st

\* ZeroTrustFramework.handle_analyst_alert
handle_analyst_alert(st, d, severity) ==
    LET recorded == adjust_trust_score(st, d, alert_adjustment(severity))
        notified == IF sdn_connected THEN sdn_handle_analyst_alert(recorded, d, severity)
                    ELSE recorded
    IN adapt_policy_for_device(notified, d)

FW_handle_analyst_alert(d, severity) ==
    /\ Commit(handle_analyst_alert(St(d), d, severity), d)
    /\ observed' = observed \cup {d}
    /\ UNCHANGED <<sdn_connected, alert_history, trustFrame>>

(***************************************************************************)
(* Traffic orchestrator (ryu_controller/traffic_orchestrator.py)           *)
(***************************************************************************)
\* the alerts AnomalyDetector.alert_history holds for a device, counted per
\* severity as far as _assess_threat_level tells them apart
NoAlerts == [high |-> 0, medium |-> 0]

recent_alerts(d) == IF d \in DOMAIN alert_history THEN alert_history[d] ELSE NoAlerts

record_alert(h, severity) ==
    CASE severity = "high" -> [h EXCEPT !.high = 1]
      [] severity = "medium" -> [h EXCEPT !.medium = IF h.medium < 2 THEN h.medium + 1 ELSE 2]
      [] OTHER -> h

assess_threat_level(severity, h) ==
    LET base == IF severity \in {"high", "medium", "low"} THEN severity ELSE "none"
    IN IF h.high > 0 THEN "critical"
       ELSE IF h.medium >= 2 THEN (IF base = "high" THEN base ELSE "high")
       ELSE IF h.medium > 0 THEN (IF base = "none" THEN "medium" ELSE base)
       ELSE base

make_decision(trust_score, threat_level) ==
    IF threat_level = "critical" THEN "quarantine"
    ELSE IF threat_level = "high"
    THEN (IF trust_score < 30 THEN "quarantine" ELSE "redirect")
    ELSE IF trust_score < 30 THEN "quarantine"
    ELSE IF trust_score < 50 THEN "deny"
    ELSE IF trust_score < 70 THEN "redirect"
    ELSE IF threat_level = "medium" THEN "redirect"
    ELSE "allow"

orchestrate_policy(st, d, severity, h) ==
    apply_policy(st, d, make_decision(st.score, assess_threat_level(severity, h)))

Severities == {"low", "medium", "high", None}

\* one anomaly found by poll_flow_statistics: the detector records it when
\* the device has a baseline, the framework handles the alert, the
\* orchestrator decides
poll_flow_effects(d, severity, baseline) ==
    /\ LET h == IF baseline THEN record_alert(recent_alerts(d), severity) ELSE recent_alerts(d)
           handled == handle_analyst_alert(St(d), d, severity)
       IN /\ alert_history' = IF baseline THEN Put(alert_history, d, h) ELSE alert_history
          /\ Commit(orchestrate_policy(handled, d, severity, h), d)
    /\ observed' = observed \cup {d}

poll_flow_statistics(d, severity, baseline) ==
    /\ sdn_connected
    /\ d \in DOMAIN devices
    /\ poll_flow_effects(d, severity, baseline)
    /\ UNCHANGED <<sdn_connected, trustFrame>>

\* the adapt_policies thread: one sweep over a device
adapt_policies(d) ==
    /\ d \in DOMAIN devices
    /\ d \in DOMAIN device_scores
    /\ Commit(adapt_policy_for_device(St(d), d), d)
    /\ UNCHANGED <<sdn_connected, alert_history, observed, trustFrame>>

\* a restart of the framework process: the scorer hydrates from the identity
\* store, start() initializes the devices that are still missing
FW_restart ==
    /\ device_scores' = load_all_trust_scores
    /\ sdn_connected' = FALSE
    /\ device_policies' = EmptyDict
    /\ alert_history' = EmptyDict
    /\ observed' = {}
    /\ adapter_first' = "none"
    /\ UNCHANGED <<devices, trustFrame>>

InitArgs == {<<>>, <<-10>>, <<50>>, <<150>>}
SetArgs == {-5, 0, 45, 100, 120}

NextScorer ==
    \/ \E d \in TrustDevices, m \in CtlMacs : onboard_route(d, m, TRUE)
    \/ set_sdn_policy_engine
    \/ \E d \in TrustDevices, init \in InitArgs : TS_initialize_device(d, init)
    \/ \E d \in TrustDevices, score \in SetArgs : TS_set_trust_score(d, score)
    \/ \E d \in TrustDevices, sev \in Severities : TS_record_behavioral_anomaly(d, sev)
    \/ \E d \in TrustDevices : TS_record_attestation_failure(d)
    \/ \E d \in TrustDevices, sev \in Severities : TS_record_security_alert(d, sev)
    \/ \E d \in TrustDevices : TS_record_positive_behavior(d)
    \/ \E d \in TrustDevices, sev \in Severities : FW_handle_analyst_alert(d, sev)
    \/ \E d \in TrustDevices, sev \in Severities, b \in BOOLEAN : poll_flow_statistics(d, sev, b)
    \/ \E d \in TrustDevices : adapt_policies(d)
    \/ FW_restart

SpecScorer == Init /\ [][NextScorer]_vars

(***************************************************************************)
(* C6: after any sequence of initialize, adjust, set and event-hook calls, *)
(* and after hydration from the Identity Store, every trust score the      *)
(* scorer holds is in [0, 100].                                            *)
(***************************************************************************)
C6_ScoreRange == \A d \in DOMAIN device_scores : device_scores[d] \in 0 .. 100

(***************************************************************************)
(* C9: once the policy adapter has observed a score change of a device,    *)
(* the action most recently installed for the device is the action of the  *)
(* bucket of its current score, also while the orchestrator and the alert  *)
(* handlers install rules for it.                                          *)
(***************************************************************************)
C9_InstalledIsBucket ==
    \A d \in observed :
        (d \in DOMAIN device_policies /\ d \in DOMAIN device_scores)
            => device_policies[d] = bucket_action(device_scores[d])

(***************************************************************************)
(* C10: with the rule installer connected, handling one high-severity      *)
(* alert at score 70 leaves the score at exactly 30 and the adapter's next *)
(* installer call is deny; handling one more at 30 leaves the score at 0   *)
(* and the adapter's next installer call is quarantine.                    *)
(***************************************************************************)
C10_AlertCascade ==
    [][\A d \in TrustDevices :
          (FW_handle_analyst_alert(d, "high") /\ d \in DOMAIN device_scores
              /\ adapter_installs(d))
          => /\ device_scores[d] = 70
                  => (device_scores'[d] = 30 /\ adapter_first' = "deny")
             /\ device_scores[d] = 30
                  => (device_scores'[d] = 0 /\ adapter_first' = "quarantine")]_vars

(***************************************************************************)
(* The framework's worker threads (zero_trust_integration.py               *)
(* _start_monitoring_threads).  TrustScorer takes no lock, so a thread can *)
(* be preempted between the statements of adjust_trust_score: the read of  *)
(* the score (line 100), the write (line 103) and the notification of the  *)
(* listeners (line 122) are separate steps.                                *)
(***************************************************************************)
\* jobs the threads start
MaxJobs == 2

Adj(delta) == [op |-> "adjust", delta |-> delta, action |-> "none"]
Apply(action) == [op |-> "apply", delta |-> 0, action |-> action]
Adapt == [op |-> "adapt", delta |-> 0, action |-> "none"]

\* what each thread does for a device in one round: the attestation thread
\* records a failed attestation, the poller handles a high-severity alert
Program(w) ==
    IF w = "Attestation" THEN <<Adj(ATTESTATION_ADJUSTMENT)>>
    ELSE <<Adj(alert_adjustment("high")), Apply("redirect"), Adj(ANALYST_ALERT_ADJUSTMENT),
           Adapt>>

WorkerDevice == "d1"

workerFrame == <<pendingVars, cert_files, ctlVars, resp, ghostVars, sdn_connected,
                 alert_history, adapter_first, monitorVars, auxVars>>

\* a rule installer call: the first one after a bucket change is recorded
install(d, action) ==
    /\ device_policies' = Put(device_policies, d, action)
    /\ first_install' = IF d \in DOMAIN due
                        THEN Put(first_install, d, [due |-> due[d], got |-> action])
                        ELSE first_install
    /\ due' = Del(due, d)

W_Start(w) ==
    /\ workers[w].pc = "idle"
    /\ workers[w].rest = <<>>
    /\ jobs < MaxJobs
    /\ sdn_connected
    /\ WorkerDevice \in DOMAIN devices
    /\ WorkerDevice \in DOMAIN device_scores
    /\ workers' = [workers EXCEPT ![w].rest = Program(w)]
    /\ jobs' = jobs + 1
    /\ UNCHANGED <<devices, device_scores, device_policies, observed, write_log, notif_log,
                   due, first_install, workerFrame>>

\* line 100: current_score = self.device_scores[device_id]['score']
W_Read(w) ==
    /\ workers[w].pc = "idle"
    /\ workers[w].rest # <<>>
    /\ Head(workers[w].rest).op = "adjust"
    /\ workers' = [workers EXCEPT ![w].pc = "write",
                                  ![w].cur = device_scores[WorkerDevice],
                                  ![w].delta = Head(workers[w].rest).delta]
    /\ UNCHANGED <<devices, device_scores, device_policies, observed, jobs, write_log,
                   notif_log, due, first_install, workerFrame>>

\* lines 101-119: clamp, write, persist
W_Write(w) ==
    /\ workers[w].pc = "write"
    /\ LET d == WorkerDevice
           prev == device_scores[d]
           new == clamp(workers[w].cur + workers[w].delta)
       IN /\ device_scores' = Put(device_scores, d, new)
          /\ devices' = save_trust_score(devices, d, new)
          /\ workers' = [workers EXCEPT ![w].pc = "notify", ![w].new = new]
          /\ write_log' = Append(write_log, [by |-> w, old |-> workers[w].cur, new |-> new,
                                             prev |-> prev])
          /\ due' = IF bucket_action(prev) # bucket_action(new)
                    THEN Put(due, d, bucket_action(new)) ELSE due
    /\ UNCHANGED <<device_policies, observed, jobs, notif_log, first_install, workerFrame>>

\* line 122: the listeners run in the writer's thread; the adapter reads the
\* score again (policy_adapter.py:44)
W_Notify(w) ==
    /\ workers[w].pc = "notify"
    /\ LET d == WorkerDevice
       IN /\ notif_log' = Append(notif_log, [by |-> w, old |-> workers[w].cur,
                                             new |-> workers[w].new])
          /\ observed' = observed \cup {d}
          /\ IF adapter_acts(workers[w].cur, workers[w].new) /\ adapter_installs(d)
             THEN install(d, bucket_action(device_scores[d]))
             ELSE UNCHANGED <<device_policies, due, first_install>>
    /\ workers' = [workers EXCEPT ![w].pc = "idle", ![w].rest = Tail(workers[w].rest)]
    /\ UNCHANGED <<devices, device_scores, jobs, write_log, workerFrame>>

\* sdn_policy_engine.py:548: self.apply_policy(device_id, 'redirect', ...)
W_Apply(w) ==
    /\ workers[w].pc = "idle"
    /\ workers[w].rest # <<>>
    /\ Head(workers[w].rest).op = "apply"
    /\ IF engine_installs(WorkerDevice)
       THEN install(WorkerDevice, Head(workers[w].rest).action)
       ELSE UNCHANGED <<device_policies, due, first_install>>
    /\ workers' = [workers EXCEPT ![w].rest = Tail(workers[w].rest)]
    /\ UNCHANGED <<devices, device_scores, observed, jobs, write_log, notif_log, workerFrame>>

\* zero_trust_integration.py:499: self.policy_adapter.adapt_policy_for_device
W_Adapt(w) ==
    /\ workers[w].pc = "idle"
    /\ workers[w].rest # <<>>
    /\ Head(workers[w].rest).op = "adapt"
    /\ IF adapter_installs(WorkerDevice)
       THEN install(WorkerDevice, bucket_action(device_scores[WorkerDevice]))
       ELSE UNCHANGED <<device_policies, due, first_install>>
    /\ workers' = [workers EXCEPT ![w].rest = Tail(workers[w].rest)]
    /\ UNCHANGED <<devices, device_scores, observed, jobs, write_log, notif_log, workerFrame>>

\* start(): the devices of the identity store get their scores before the
\* threads run
NextWorkers ==
    \/ \E m \in CtlMacs : onboard_route(WorkerDevice, m, TRUE)
    \/ set_sdn_policy_engine
    \/ TS_initialize_device(WorkerDevice, <<>>)
    \/ \E w \in Workers : W_Start(w)
    \/ \E w \in Workers : W_Read(w)
    \/ \E w \in Workers : W_Write(w)
    \/ \E w \in Workers : W_Notify(w)
    \/ \E w \in Workers : W_Apply(w)
    \/ \E w \in Workers : W_Adapt(w)

SpecWorkers == Init /\ [][NextWorkers]_vars

(***************************************************************************)
(* C7: concurrent trust updates of one device take effect one at a time:   *)
(* every write starts from the score the previous write left (no update is *)
(* lost) and the listeners get the (old, new) notifications in the order   *)
(* of the writes.                                                          *)
(***************************************************************************)
NoLostUpdate == \A i \in 1 .. Len(write_log) : write_log[i].old = write_log[i].prev

NotifiedInWriteOrder ==
    \A i \in 1 .. Len(notif_log) :
        /\ notif_log[i].by = write_log[i].by
        /\ notif_log[i].old = write_log[i].old
        /\ notif_log[i].new = write_log[i].new

C7_UpdatesSerialized == NoLostUpdate /\ NotifiedInWriteOrder

(***************************************************************************)
(* C8: after a trust update that moves a device into another bucket, the   *)
(* first rule installer call for the device installs the action of the new *)
(* bucket, whatever the other workers and alert handlers do meanwhile.     *)
(***************************************************************************)
C8_FirstInstallIsBucket ==
    \A d \in DOMAIN first_install : first_install[d].got = first_install[d].due

(***************************************************************************)
(* identity_manager: the Identity Store driven through its own API         *)
(* (IdentityDatabase.add_device, update_device_status) and through         *)
(* DeviceOnboarding (onboard_device, revoke_device)                        *)
(***************************************************************************)
identityFrame == <<pendingVars, ctlVars, ghostVars>>

\* IdentityDatabase.add_device called directly; certificate_path defaults to
\* None.  It returns True unless sqlite raises.
ID_add_device(d, m, certificate_path) ==
    /\ devices' = add_device_with(devices, d, m, certificate_path)
    /\ resp' = Resp("add_device", 1)
    /\ UNCHANGED <<cert_files, identityFrame>>
    /\ UNCHANGED trustVars

\* DeviceOnboarding.onboard_device called directly
ID_onboard_device(d, m, cert_ok) ==
    /\ devices' = onboard_device_devices(d, m, cert_ok)
    /\ cert_files' = onboard_device_files(d, cert_ok)
    /\ resp' = Resp("onboard_device", IF onboard_device_ok(d, cert_ok) THEN 1 ELSE 0)
    /\ UNCHANGED identityFrame
    /\ UNCHANGED trustVars

\* the status values the docstring of update_device_status lists
DeviceStatuses == {"active", "inactive", "revoked", "quarantined"}

\* IdentityDatabase.update_device_status called directly
ID_update_device_status(d, st) ==
    /\ devices' = update_device_status(devices, d, st)
    /\ resp' = Resp("update_device_status", 1)
    /\ UNCHANGED <<cert_files, identityFrame>>
    /\ UNCHANGED trustVars

NextIdentity ==
    \/ \E d \in DeviceIds, m \in Macs, cp \in BOOLEAN : ID_add_device(d, m, cp)
    \/ \E d \in DeviceIds, m \in Macs, ok \in BOOLEAN : ID_onboard_device(d, m, ok)
    \/ \E d \in DeviceIds, st \in DeviceStatuses : ID_update_device_status(d, st)
    \/ \E d \in DeviceIds : revoke_device(d)

SpecIdentity == Init /\ [][NextIdentity]_vars

ActiveWithMac(m) ==
    {d \in DOMAIN devices : devices[d].mac = m /\ devices[d].status = "active"}

(***************************************************************************)
(* C11: at every moment and for every MAC address at most one device of    *)
(* the Identity Store with status active has that MAC, whatever sequence   *)
(* of onboard, add_device, revoke and status-update operations ran.        *)
(***************************************************************************)
C11_OneActivePerMac == \A m \in Macs : Cardinality(ActiveWithMac(m)) <= 1

\* a MAC was taken over: the device that held it got its certificate from
\* onboard_device and lost its row to the active device that holds it now
C11_Witness ==
    \E d \in DeviceIds, e \in DeviceIds :
        /\ d # e
        /\ d \in cert_files
        /\ d \notin DOMAIN devices
        /\ e \in DOMAIN devices
        /\ devices[e].status = "active"

(***************************************************************************)
(* C12: add_device for a MAC that is bound to a different active device id *)
(* fails and leaves the store unchanged; adding a device never overwrites  *)
(* or removes the record of another device.                                *)
(***************************************************************************)
C12_AddDeviceConflict ==
    [][\A d \in DeviceIds, m \in Macs, cp \in BOOLEAN :
          (ID_add_device(d, m, cp) /\ ActiveWithMac(m) \ {d} # {})
              => (devices' = devices /\ resp'.code = 0)]_vars

(***************************************************************************)
(* C13: every device whose status is active has a certificate reference    *)
(* for which the CA verification returns true.                             *)
(***************************************************************************)
C13_ActiveHasValidCert ==
    \A d \in DOMAIN devices :
        devices[d].status = "active" => verify_device_certificate(d)

\* a credential was issued for the request: the identity store has a record
\* (onboard_device writes it right after the certificate) for the requesting
\* device id, for the device id of the pending row, or for the mac
Credentialed(d, m) ==
    \/ get_device(d)
    \/ get_device_by_mac(m) # {}
    \/ (m \in DOMAIN pending_devices /\ get_device(pending_devices[m].device_id))

(***************************************************************************)
(* C14: for a device admitted through the pending queue the operator's     *)
(* approval precedes credential issuance and credential issuance precedes  *)
(* the first session token: no token is issued on a request whose MAC has  *)
(* an approved row but no credential yet.                                  *)
(***************************************************************************)
C14_CredentialBeforeToken ==
    [][\A d \in DeviceIds, m \in CtlMacs :
          (get_token(d, m) /\ resp'.code = 200 /\ m \in DOMAIN pending_devices)
              => Credentialed(d, m)]_vars

\* the operator's steps of the admission workflow on the row of mac m
AdmissionStep(m) ==
    \/ \E c \in BOOLEAN : approve_route(m, c)
    \/ reject_route(m)

(***************************************************************************)
(* C15: once the operator has rejected a pending MAC, the admission        *)
(* workflow issues no certificate or key and creates no Identity Store     *)
(* record for it, in whatever order approve and reject are then tried:     *)
(* the row stays rejected and the workflow's steps on it leave the         *)
(* certificate files and the store as they were.                           *)
(***************************************************************************)
C15_RejectedNoArtifacts ==
    [][\A m \in CtlMacs :
          RowStatus(m) = STATUS_REJECTED
              => /\ pending_devices'[m].status = STATUS_REJECTED
                 /\ AdmissionStep(m) => UNCHANGED identityVars]_vars

\* approval was tried on a rejected row and refused
C15_Witness ==
    \E m \in CtlMacs : RowStatus(m) = STATUS_REJECTED /\ resp = Resp("approve", 400)

(***************************************************************************)
(* controller.py: POST /data with the list of packet times (rate limit)    *)
(***************************************************************************)
MaxPackets == 3

RATE_LIMIT == 60
RATE_WINDOW == 60

\* line 700: [t for t in packet_counts[device_id] if current_time - t <= 60]
rate_window(times) == SelectSeq(times, LAMBDA x : now - x <= RATE_WINDOW)

\* the checks of /data that follow the session check
CountedEnv == {"pass", "maintenance", "policy"}

\* the whole handler; 403 stands for the answer {'status': 'rejected'} and the
\* text after "data:" for its reason
data_counted(d, t, env) ==
    /\ submissions < MaxPackets
    /\ submissions' = submissions + 1
    /\ IF ~token_matches(d, t) \/ ~data_authorized(d)
       THEN /\ resp' = Resp("data:unauthorized", 403)
            /\ UNCHANGED <<device_tokens, packet_counts>>
       ELSE IF session_expired(d)
       THEN /\ device_tokens' = Del(device_tokens, d)
            /\ resp' = Resp("data:expired", 403)
            /\ UNCHANGED packet_counts
       ELSE IF env = "maintenance"
       THEN /\ resp' = Resp("data:maintenance", 403)
            /\ UNCHANGED <<device_tokens, packet_counts>>
       ELSE IF d \notin DOMAIN packet_counts
       THEN \* line 699: packet_counts[device_id] raises KeyError, Flask answers 500
            /\ resp' = Resp("data:KeyError", 500)
            /\ UNCHANGED <<device_tokens, packet_counts>>
       ELSE LET counted == rate_window(Append(packet_counts[d], now))
            IN /\ packet_counts' = Put(packet_counts, d, counted)
               /\ IF Len(counted) > RATE_LIMIT
                  THEN /\ resp' = Resp("data:rate_limit", 403)
                       /\ UNCHANGED device_tokens
                  ELSE IF env = "policy"
                  THEN /\ resp' = Resp("data:policy", 403)
                       /\ UNCHANGED device_tokens
                  ELSE /\ device_tokens' = touch(d)
                       /\ resp' = Resp("data:accepted", 200)
    /\ UNCHANGED <<pendingVars, identityVars, authorized_devices, now, ticks, next_token,
                   ghostVars>>
    /\ UNCHANGED trustVars

\* POST /update (dashboard form): sets the flag and drops the session on
\* revoke; unlike POST /api/authorize_device it creates no tracking lists
update_auth(d, action) ==
    /\ authorized_devices' = Put(authorized_devices, d, action = "authorize")
    /\ device_tokens' = IF action = "revoke" THEN Del(device_tokens, d) ELSE device_tokens
    /\ invalidated' = IF action = "revoke" THEN invalidated \cup HeldTokens(d) ELSE invalidated
    /\ revoked_since' = IF action = "authorize" THEN revoked_since \ {d} ELSE revoked_since
    /\ resp' = Resp("update", 200)
    /\ UNCHANGED <<pendingVars, identityVars, now, ticks, next_token, rateVars, last_issued>>
    /\ UNCHANGED trustVars

RateDevices == {"d1"}
RateSteps == {1, RATE_WINDOW}

\* the packets a device has sent at time 0 when a run starts
BurstSizes == {RATE_LIMIT - 1}

\* the state after POST /api/authorize_device and POST /get_token for d1 and a
\* burst of accepted packets, all at time 0
InitBurst(k) ==
    /\ InitCore!1 /\ InitCore!2 /\ InitCore!3 /\ InitCore!4
    /\ authorized_devices = [d \in RateDevices |-> TRUE]
    /\ device_tokens = [d \in RateDevices |-> [token |-> 1, last_activity |-> 0]]
    /\ now = 0
    /\ ticks = 0
    /\ next_token = 2
    /\ packet_counts = [d \in RateDevices |-> [i \in 1 .. k |-> 0]]
    /\ submissions = 0
    /\ resp = Resp("data:accepted", 200)
    /\ last_issued = [d \in RateDevices |-> 1]
    /\ revoked_since = {}
    /\ invalidated = {}
    /\ device_scores = EmptyDict
    /\ sdn_connected = FALSE
    /\ device_policies = EmptyDict
    /\ alert_history = EmptyDict
    /\ observed = {}
    /\ adapter_first = "none"
    /\ workers = [w \in Workers |-> IdleWorker]
    /\ jobs = 0
    /\ write_log = <<>>
    /\ notif_log = <<>>
    /\ due = EmptyDict
    /\ first_install = EmptyDict
    /\ arp_table = {}
    /\ known_devices = {}
    /\ InitAux

InitRate == Init \/ \E k \in BurstSizes : InitBurst(k)

NextRate ==
    \/ \E d \in RateDevices, a \in Switch : update_auth(d, a)
    \/ \E d \in RateDevices : api_authorize_device(d, "authorize")
    \/ \E d \in RateDevices : get_token(d, None)
    \/ \E d \in RateDevices, t \in Tokens, env \in CountedEnv : data_counted(d, t, env)
    \/ \E dt \in RateSteps : tick(dt)

SpecRate == InitRate /\ [][NextRate]_vars

\* packets of the device inside the window, before the one being handled
InWindow(d) ==
    IF d \in DOMAIN packet_counts THEN Len(rate_window(packet_counts[d])) ELSE 0

(***************************************************************************)
(* C16: for a device with a valid session, a data submission is accepted   *)
(* while fewer than 60 submissions lie in the 60-second window before it   *)
(* (the first 60 are accepted) and is rejected for the rate limit when 60  *)
(* already do (the 61st is rejected).                                     *)
(***************************************************************************)
C16_RateLimit ==
    [][\A d \in RateDevices, t \in Tokens :
          (/\ data_counted(d, t, "pass")
           /\ token_matches(d, t)
           /\ data_authorized(d)
           /\ ~session_expired(d))
              => IF InWindow(d) < RATE_LIMIT
                 THEN resp' = Resp("data:accepted", 200)
                 ELSE resp' = Resp("data:rate_limit", 403)]_vars

\* the request's device is in none of the three stores
UnknownDevice(d, m) ==
    /\ ~get_device(d)
    /\ get_device_by_mac(m) = {}
    /\ ~dict_get(authorized_devices, d)
    /\ m \notin DOMAIN pending_devices

StationMac == [m1 |-> "AA:BB:CC:00:00:01", m2 |-> "AA:BB:CD:00:00:02"]

\* DeviceIDGenerator._extract_mac_prefix: the first six hex digits, in pairs
\* joined by '_'
extract_mac_prefix(m) ==
    LET t == StationMac[m]
    IN SubSeq(t, 1, 2) \o "_" \o SubSeq(t, 4, 5) \o "_" \o SubSeq(t, 7, 8)

\* values of _generate_random_key: six characters of A-Z0-9
RandomKeys == {"A3F2K9", "000000"}

\* DeviceIDGenerator.generate_device_id: DEV_<prefix>_<key>
generate_device_id(m, key) == "DEV" \o "_" \o extract_mac_prefix(m) \o "_" \o key

\* AutoOnboardingService._on_new_device_detected, the callback handed to the
\* detector: skips a MAC the identity store knows or whose row is pending
on_new_device_detected(m, key) ==
    IF get_device_by_mac(m) # {} \/ RowStatus(m) = STATUS_PENDING
    THEN pending_devices
    ELSE add_pending_device_table(m, generate_device_id(m, key))

\* WiFiDetector.scan_once: the MACs of the ARP table not seen before
scan_once == arp_table \ known_devices

\* a station associates with / leaves the access point
station_joins(m) ==
    /\ m \notin arp_table
    /\ arp_table' = arp_table \cup {m}
    /\ UNCHANGED <<known_devices, pendingVars, identityVars, ctlVars, resp, ghostVars,
                   scorerVars, workerVars, auxVars>>

station_leaves(m) ==
    /\ m \in arp_table
    /\ arp_table' = arp_table \ {m}
    /\ UNCHANGED <<known_devices, pendingVars, identityVars, ctlVars, resp, ghostVars,
                   scorerVars, workerVars, auxVars>>

\* one round of AutoOnboardingService._monitor_loop: it calls scan_once and
\* only logs how many MACs came back.  scan_once records them as known and
\* returns them; the callback is invoked by WiFiDetector.start_monitoring
\* alone, which the service never runs.
monitor_loop ==
    /\ known_devices' = known_devices \cup arp_table
    /\ resp' = Resp("scan_once", Cardinality(scan_once))
    /\ UNCHANGED <<arp_table, pendingVars, identityVars, ctlVars, ghostVars,
                   scorerVars, workerVars, auxVars>>

NextMonitor ==
    \/ \E m \in Macs : station_joins(m)
    \/ \E m \in Macs : station_leaves(m)
    \/ monitor_loop
    \/ \E m \in Macs, d \in DeviceIds : PDM_add_pending_device(m, d)
    \/ \E m \in Macs : PDM_approve_device(m)
    \/ \E m \in Macs : PDM_reject_device(m)
    \/ \E m \in Macs : PDM_mark_onboarded(m)

SpecMonitor == Init /\ [][NextMonitor]_vars

\* the MAC is on the network and neither store nor the detector has seen it
UnknownStation(m) ==
    /\ m \in arp_table
    /\ m \notin known_devices
    /\ get_device_by_mac(m) = {}
    /\ m \notin DOMAIN pending_devices

(***************************************************************************)
(* C18: while the admission poller runs, one poll tick after an unknown    *)
(* MAC has appeared on the network the pending list holds one row for it,  *)
(* with status pending and a device id DEV_<first three octets joined by   *)
(* '_'>_<six characters of A-Z0-9>: the tick has the effect of the         *)
(* detection callback.                                                     *)
(***************************************************************************)
C18_PollerEnqueues ==
    [][\A m \in Macs :
          (monitor_loop /\ UnknownStation(m))
              => \E key \in RandomKeys :
                    /\ m \in DOMAIN pending_devices'
                    /\ pending_devices'[m] = on_new_device_detected(m, key)[m]]_vars

\* PendingDeviceManager.get_pending_devices: the rows with status 'pending'
get_pending_devices == {m \in DOMAIN pending_devices : pending_devices[m].status = STATUS_PENDING}

\* the identity store has, for the mac, an active device whose certificate
\* verifies
ActiveVerified(m) ==
    \E r \in get_device_by_mac(m) :
        /\ devices[r].status = "active"
        /\ verify_device_certificate(r)

NextQueue ==
    \/ \E d \in DeviceIds, m \in CtlMacs : get_token(d, m)
    \/ \E d \in DeviceIds : api_authorize_device(d, "authorize")
    \/ \E d \in DeviceIds, m \in CtlMacs, c \in BOOLEAN : onboard_route(d, m, c)
    \/ \E m \in CtlMacs, c \in BOOLEAN : approve_route(m, c)
    \/ \E m \in CtlMacs : reject_route(m)
    \/ \E d \in DeviceIds : revoke_device(d)

SpecQueue == Init /\ [][NextQueue]_vars

(***************************************************************************)
(* C20: add_pending_device answers duplicate and adds nothing exactly when *)
(* a row with the same MAC exists in a non-terminal status (pending or     *)
(* approved); when there is no row, or the row is rejected or onboarded,   *)
(* it answers ok and the MAC then has a row with status pending.           *)
(***************************************************************************)
C20_EnqueueDuplicate ==
    [][\A m \in Macs, d \in DeviceIds :
          PDM_add_pending_device(m, d)
              => IF RowStatus(m) \in {STATUS_PENDING, STATUS_APPROVED}
                 THEN resp'.code = 0 /\ UNCHANGED pendingVars
                 ELSE /\ resp'.code = 1
                      /\ m \in DOMAIN pending_devices'
                      /\ pending_devices'[m].status = STATUS_PENDING]_vars


(***************************************************************************)
(* C21: approve_device(m) on a row that is already approved changes        *)
(* neither the pending table nor the history and answers success.          *)
(***************************************************************************)
C21_ApproveIdempotent ==
    [][\A m \in Macs :
          (PDM_approve_device(m) /\ RowStatus(m) = STATUS_APPROVED)
              => (UNCHANGED pendingVars /\ resp'.code = 1)]_vars

(***************************************************************************)
(* C22: every change of a row's status (to pending on detection, to        *)
(* approved, rejected or onboarded) appends exactly one history row for    *)
(* that MAC, and the history rows already written stay as they are.        *)
(***************************************************************************)
AuditAction(st) == IF st = STATUS_PENDING THEN "detected" ELSE st

HistoryKept ==
    /\ Len(device_history') >= Len(device_history)
    /\ SubSeq(device_history', 1, Len(device_history)) = device_history

C22_AuditTrail ==
    [][/\ HistoryKept
       /\ \A m \in Macs :
            RowStatus(m)' # RowStatus(m)
                => /\ Len(device_history') = Len(device_history) + 1
                   /\ device_history'[Len(device_history')].mac = m
                   /\ device_history'[Len(device_history')].action
                          = AuditAction(RowStatus(m)')]_vars


(***************************************************************************)
(* C23: on a trust-change notification (device, old, new), for a device    *)
(* the identity store holds and with the rule installer connected, the     *)
(* policy adapter calls the rule installer for the device exactly when     *)
(* the bucket of old differs from the bucket of new or |new - old| >= 10.  *)
(* adjust_trust_score and set_trust_score send one notification each.      *)
(***************************************************************************)
\* the deltas of the event hooks
HookDeltas == {-40, -30, -20, -15, -10, -5, POSITIVE_ADJUSTMENT}

\* one call of adjust_trust_score or set_trust_score on device d
Notification(d) ==
    \/ \E delta \in HookDeltas : TS_adjust_trust_score(d, delta)
    \/ \E score \in SetArgs : TS_set_trust_score(d, score)

AdapterCalledIff(d) ==
    adapter_first' # "none"
        <=> \/ bucket_action(current_score(d)) # bucket_action(device_scores'[d])
            \/ Abs(device_scores'[d] - current_score(d)) >= 10

C23_AdapterActsIff ==
    [][\A d \in TrustDevices :
          (Notification(d) /\ adapter_installs(d)) => AdapterCalledIff(d)]_vars

\* the claim as stated, for every notification
C23_AdapterActsIff_Unconditional ==
    [][\A d \in TrustDevices : Notification(d) => AdapterCalledIff(d)]_vars

\* the adapter called the installer after a change of exactly 10 points
\* inside the trusted bucket
C23_Witness ==
    /\ sdn_connected
    /\ \E d \in TrustDevices :
          /\ d \in DOMAIN devices
          /\ d \in DOMAIN device_scores
          /\ device_scores[d] = 90
          /\ adapter_first = "allow"


(***************************************************************************)
(* The trust history (trust_scorer.py _record_score_change, and the        *)
(* trust_score_history table written by save_trust_score).  The scorer's   *)
(* threads take no lock, so the statements of _record_score_change are     *)
(* separate steps: the membership test (line 266), the creation of the     *)
(* list (267), the reading of the clock (270) and the append with the trim *)
(* that follows it (269-277).                                              *)
(***************************************************************************)
HISTORY_LIMIT == 1000

HistScores == {30, INITIAL_SCORE}

\* self.score_history[device_id][-1000:] when the list is longer than 1000
last_entries(h) ==
    IF Len(h) > HISTORY_LIMIT THEN SubSeq(h, Len(h) - HISTORY_LIMIT + 1, Len(h)) ELSE h

historyFrame == <<pendingVars, cert_files, ctlVars, resp, ghostVars, scorerVars, workers,
                  write_log, notif_log, due, first_install, monitorVars, laterVars>>

\* a thread reaches the bookkeeping of adjust_trust_score with the new score
TS_adjust_bookkeeping(w, score) ==
    /\ recorders[w].pc = "idle"
    /\ jobs < MaxJobs
    /\ jobs' = jobs + 1
    /\ recorders' = [recorders EXCEPT ![w] = [pc |-> "check", ts |-> 0, score |-> score]]
    /\ UNCHANGED <<score_history, trust_score_history, devices, historyFrame>>

\* _record_score_change(d, score, reason), one statement per step
record_score_change(w, d) ==
    LET r == recorders[w]
    IN /\ r.pc \in {"check", "create", "stamp", "append"}
       /\ score_history' =
            CASE r.pc = "create" -> Put(score_history, d, <<>>)
              [] r.pc = "append" ->
                    Put(score_history, d,
                        last_entries(Append(score_history[d], [ts |-> r.ts, score |-> r.score])))
              [] OTHER -> score_history
       /\ recorders' = [recorders EXCEPT ![w] =
            CASE r.pc = "check" ->
                    [r EXCEPT !.pc = IF d \in DOMAIN score_history THEN "stamp" ELSE "create"]
              [] r.pc = "create" -> [r EXCEPT !.pc = "stamp"]
              [] r.pc = "stamp" -> [r EXCEPT !.pc = "append", !.ts = now]
              [] r.pc = "append" -> [r EXCEPT !.pc = "save"]]
       /\ UNCHANGED <<trust_score_history, devices, jobs, historyFrame>>

\* identity_db.save_trust_score(d, score, reason): the UPDATE and the INSERT
\* with its own datetime.utcnow() run in one transaction
save_trust_score_history(w, d) ==
    /\ recorders[w].pc = "save"
    /\ devices' = save_trust_score(devices, d, recorders[w].score)
    /\ trust_score_history' =
          Append(trust_score_history, [ts |-> now, score |-> recorders[w].score])
    /\ recorders' = [recorders EXCEPT ![w].pc = "idle"]
    /\ UNCHANGED <<score_history, jobs, historyFrame>>

\* a scorer that has been running for long: the list of the device is full
InitFullHistory ==
    /\ InitCore
    /\ score_history = [d \in TrustDevices |->
                            [i \in 1 .. HISTORY_LIMIT |-> [ts |-> 0, score |-> INITIAL_SCORE]]]
    /\ trust_score_history = <<>>
    /\ recorders = [w \in Workers |-> IdleRecorder]
    /\ InitLater

InitHistory == Init \/ InitFullHistory

NextHistory ==
    \/ \E w \in Workers, score \in HistScores : TS_adjust_bookkeeping(w, score)
    \/ \E w \in Workers, d \in TrustDevices : record_score_change(w, d)
    \/ \E w \in Workers, d \in TrustDevices : save_trust_score_history(w, d)
    \/ \E dt \in TickSteps : tick(dt)

SpecHistory == InitHistory /\ [][NextHistory]_vars

(***************************************************************************)
(* C24: for every device the trust history only grows by appending: the    *)
(* rows already written stay in place unchanged, and the rows are in       *)
(* non-decreasing order of timestamp, whatever the interleaving of the     *)
(* threads that update scores.                                             *)
(***************************************************************************)
IsPrefix(h, g) == Len(h) <= Len(g) /\ SubSeq(g, 1, Len(h)) = h

TimeOrdered(h) == \A i \in 1 .. Len(h) - 1 : h[i].ts <= h[i + 1].ts

C24_HistoryAppendOnly ==
    [][/\ \A d \in DOMAIN score_history :
            /\ d \in DOMAIN score_history'
            /\ IsPrefix(score_history[d], score_history'[d])
            /\ TimeOrdered(score_history'[d])
       /\ IsPrefix(trust_score_history, trust_score_history')
       /\ TimeOrdered(trust_score_history')]_vars


(***************************************************************************)
(* C25: every /data submission that passes the token check and the         *)
(* session-timeout check sets the session's last_activity to the current   *)
(* time, whether the submission is then accepted or rejected (so a device  *)
(* submitting at intervals shorter than the timeout keeps its session).    *)
(***************************************************************************)
PassesSessionChecks(d, t) ==
    token_matches(d, t) /\ data_authorized(d) /\ ~session_expired(d)

C25_ActivityRefreshed ==
    [][\A d \in RateDevices, t \in Tokens, env \in CountedEnv :
          (data_counted(d, t, env) /\ PassesSessionChecks(d, t))
              => /\ d \in DOMAIN device_tokens'
                 /\ device_tokens'[d].last_activity = now]_vars


(***************************************************************************)
(* Behavioral profiler and the profiling monitor                           *)
(* (identity_manager/behavioral_profiler.py, device_onboarding.py)         *)
(***************************************************************************)
PROFILING_DURATION == 300
MONITORING_INTERVAL == 30
MIN_TRAFFIC_PACKETS == 5

\* packets a switch reports in a row, and their size
PacketBatches == {1, MIN_TRAFFIC_PACKETS}
PacketSizes == {64}
\* the device that is profiled, and the MAC of a device
ProfiledDevices == {"d1"}
DeviceMac(d) == IF d = "d1" THEN "m1" ELSE "m2"
ProfilingSteps == {MONITORING_INTERVAL, PROFILING_DURATION}

profilerFrame == <<pendingVars, ctlVars, ghostVars, scorerVars, workerVars, monitorVars,
                   historyVars, detectorVars, tailVars>>

\* BehavioralProfiler.start_profiling: a fresh accumulator
start_profiling(d) ==
    Put(active_profiling, d, [start_time |-> now, packet_count |-> 0, byte_count |-> 0])

\* DeviceOnboarding.onboard_device with the profiler: profiling starts when
\* the device was stored
DO_onboard_device(d, m, cert_ok) ==
    /\ devices' = onboard_device_devices(d, m, cert_ok)
    /\ cert_files' = onboard_device_files(d, cert_ok)
    /\ active_profiling' = IF onboard_device_ok(d, cert_ok) THEN start_profiling(d)
                           ELSE active_profiling
    /\ resp' = Resp("onboard_device", IF onboard_device_ok(d, cert_ok) THEN 1 ELSE 0)
    /\ UNCHANGED <<behavioral_baselines, profilerFrame>>

\* BehavioralProfiler.record_traffic for k packets of the same size in a
\* row; ignored for a device that is not being profiled
record_traffic(d, k, size) ==
    /\ d \in DOMAIN active_profiling => active_profiling[d].packet_count < MaxPackets
    /\ active_profiling' =
          IF d \in DOMAIN active_profiling
          THEN Put(active_profiling, d,
                   [active_profiling[d] EXCEPT !.packet_count = @ + k,
                                               !.byte_count = @ + k * size])
          ELSE active_profiling
    /\ UNCHANGED <<behavioral_baselines, identityVars, resp, profilerFrame>>

\* elapsed_time >= self.profiling_duration
is_profiling_expired(d) ==
    d \in DOMAIN active_profiling /\ now - active_profiling[d].start_time >= PROFILING_DURATION

\* finish_profiling: the baseline of an accumulator (rates are kept as the
\* counts and the elapsed time they are the quotient of)
baseline_of(d) ==
    [packet_count |-> active_profiling[d].packet_count,
     byte_count |-> active_profiling[d].byte_count,
     profiling_duration |-> now - active_profiling[d].start_time,
     \* the packets recorded here carry no dst_ip and no dst_port
     common_destinations |-> 0,
     common_ports |-> 0]

\* the monitor finalizes only devices that received the minimum traffic
auto_finalized_min_traffic(d) == active_profiling[d].packet_count >= MIN_TRAFFIC_PACKETS

\* monitoring_loop calls finalize_onboarding in both branches of its test of
\* packet_count against min_traffic_packets
auto_finalized(d) ==
    \/ active_profiling[d].packet_count >= MIN_TRAFFIC_PACKETS
    \/ active_profiling[d].packet_count < MIN_TRAFFIC_PACKETS

\* finalize_onboarding for the devices in ds: finish_profiling removes the
\* accumulator, save_behavioral_baseline does INSERT OR REPLACE
finalize_onboarding(ds) ==
    /\ active_profiling' = [d \in DOMAIN active_profiling \ ds |-> active_profiling[d]]
    /\ behavioral_baselines' =
          [d \in DOMAIN behavioral_baselines \cup ds |->
              IF d \in ds THEN baseline_of(d) ELSE behavioral_baselines[d]]

\* one round of the OnboardingProfilingMonitor thread
monitoring_loop ==
    /\ finalize_onboarding({d \in DOMAIN active_profiling :
                               is_profiling_expired(d) /\ auto_finalized(d)})
    /\ resp' = Resp("monitoring_loop", 0)
    /\ UNCHANGED <<identityVars, profilerFrame>>

\* POST /finalize_onboarding
finalize_route(d) ==
    /\ finalize_onboarding({d} \cap DOMAIN active_profiling)
    /\ resp' = Resp("finalize_onboarding", IF d \in DOMAIN active_profiling THEN 200 ELSE 400)
    /\ UNCHANGED <<identityVars, profilerFrame>>

NextProfiler ==
    \/ \E d \in ProfiledDevices, ok \in BOOLEAN : DO_onboard_device(d, DeviceMac(d), ok)
    \/ \E d \in ProfiledDevices, k \in PacketBatches, size \in PacketSizes :
          record_traffic(d, k, size)
    \/ \E d \in ProfiledDevices : finalize_route(d)
    \/ \E dt \in ProfilingSteps : tick(dt)
    \/ monitoring_loop

\* the monitor thread sleeps monitoring_interval seconds between rounds and
\* catches every exception of a round, so its rounds keep coming
SpecProfiler == Init /\ [][NextProfiler]_vars /\ WF_vars(monitoring_loop)

(***************************************************************************)
(* C26: every device whose profiling duration has elapsed is finalized by  *)
(* the next round of the profiling monitor: its accumulator is removed and *)
(* a baseline is persisted, also when it received fewer than 5 packets or  *)
(* none; a device whose duration has elapsed does not stay in active       *)
(* profiling.                                                              *)
(***************************************************************************)
DurationElapsed(d) ==
    d \in DOMAIN active_profiling /\ now - active_profiling[d].start_time >= PROFILING_DURATION

Finalized(d) == d \notin DOMAIN active_profiling /\ d \in DOMAIN behavioral_baselines

C26_ExpiredFinalized ==
    /\ [][monitoring_loop
            => \A d \in ProfiledDevices : DurationElapsed(d) => Finalized(d)']_vars
    /\ \A d \in ProfiledDevices : DurationElapsed(d) ~> Finalized(d)

\* the monitor finalized a device that had received no packet at all
C26_Witness ==
    /\ resp = Resp("monitoring_loop", 0)
    /\ \E d \in ProfiledDevices :
          /\ Finalized(d)
          /\ behavioral_baselines[d].packet_count = 0
          /\ behavioral_baselines[d].profiling_duration >= PROFILING_DURATION


(***************************************************************************)
(* C27: the threat level the traffic orchestrator decides on is the        *)
(* maximum of the severity of the threat record and the bump-up level of   *)
(* the device's recent alerts (high with at least one recent high alert or *)
(* at least two recent medium alerts, medium with exactly one recent       *)
(* medium alert, none otherwise); in particular a threat level of high at  *)
(* a trust score of 30 or more is answered with redirect.                  *)
(***************************************************************************)
ThreatRank(level) ==
    CASE level = "critical" -> 4
      [] level = "high" -> 3
      [] level = "medium" -> 2
      [] level = "low" -> 1
      [] OTHER -> 0

BumpUp(h) ==
    IF h.high >= 1 \/ h.medium >= 2 THEN "high"
    ELSE IF h.medium = 1 THEN "medium"
    ELSE "none"

RecordLevel(severity) == IF severity \in {"high", "medium", "low"} THEN severity ELSE "none"

MaxThreat(severity, h) ==
    IF ThreatRank(RecordLevel(severity)) >= ThreatRank(BumpUp(h))
    THEN RecordLevel(severity) ELSE BumpUp(h)

C27_ThreatLevelIsMax ==
    [][\A d \in TrustDevices, severity \in Severities, baseline \in BOOLEAN :
          poll_flow_statistics(d, severity, baseline)
              => device_policies'[d]
                    = make_decision(device_scores'[d], MaxThreat(severity, recent_alerts(d)'))]_vars


(***************************************************************************)
(* Anomaly detection on flow statistics (heuristic_analyst/                *)
(* anomaly_detector.py, flow_analyzer.py; the poller thread of             *)
(* zero_trust_integration.py).  Rates are compared as integers: a baseline *)
(* rate is the quotient count / max(duration, 1) of a baseline row.        *)
(***************************************************************************)
ALERT_LIMIT == 100

\* what a switch's FlowAnalyzer reports for a device over the 60 s window
SwitchStats ==
    {[packets_per_second |-> p, bytes_per_second |-> p * 64,
      unique_destinations |-> u[1], unique_ports |-> u[2]] :
        p \in {1, 3, 12}, u \in {<<1, 1>>, <<60, 30>>}}

\* FlowAnalyzerManager.get_all_device_stats: totals and the sets of
\* destinations and ports are aggregated; packets_per_second and
\* bytes_per_second keep the 0.0 they are created with
\* the same aggregation with the rates of the switch passed on
get_all_device_stats_with_rates(stats) == stats

get_all_device_stats(stats) ==
    [stats EXCEPT !.packets_per_second = 0, !.bytes_per_second = 0]

\* rate / (count / max(duration, 1)) > factor, for a baseline rate above 0
ratio_exceeds(rate, count, duration, factor) ==
    count > 0 /\ rate * (IF duration > 1 THEN duration ELSE 1) > factor * count

overall_severity(severity_score) ==
    IF severity_score >= 70 THEN "high"
    ELSE IF severity_score >= 40 THEN "medium"
    ELSE IF severity_score >= 20 THEN "low"
    ELSE None

\* detect_anomalies with a baseline b
detect_anomalies(b, stats) ==
    LET pps == IF ratio_exceeds(stats.packets_per_second, b.packet_count,
                                b.profiling_duration, 10) THEN 50
               ELSE IF ratio_exceeds(stats.packets_per_second, b.packet_count,
                                     b.profiling_duration, 5) THEN 30
               ELSE IF ratio_exceeds(stats.packets_per_second, b.packet_count,
                                     b.profiling_duration, 2) THEN 15
               ELSE 0
        bps == IF ratio_exceeds(stats.bytes_per_second, b.byte_count,
                                b.profiling_duration, 10) THEN 40 ELSE 0
        dst == IF /\ stats.unique_destinations > b.common_destinations * 5
                  /\ stats.unique_destinations > 20 THEN 25 ELSE 0
        prt == IF /\ stats.unique_ports > b.common_ports * 3
                  /\ stats.unique_ports > 10 THEN 20 ELSE 0
    IN [is_anomaly |-> pps + bps + dst + prt > 0,
        anomaly_type |-> IF pps + bps > 0 THEN "dos"
                         ELSE IF dst + prt > 0 THEN "scanning" ELSE None,
        severity |-> overall_severity(pps + bps + dst + prt),
        severity_score |-> pps + bps + dst + prt]

\* _detect_without_baseline: absolute thresholds, the type of the first finding
detect_without_baseline(stats) ==
    LET pps == IF stats.packets_per_second > 10000 THEN 50
               ELSE IF stats.packets_per_second > 5000 THEN 30 ELSE 0
        bps == IF stats.bytes_per_second > 10000000 THEN 40 ELSE 0
        dst == IF stats.unique_destinations > 50 THEN 25 ELSE 0
        prt == IF stats.unique_ports > 20 THEN 20 ELSE 0
    IN [is_anomaly |-> pps + bps + dst + prt > 0,
        anomaly_type |-> IF pps > 0 THEN "dos"
                         ELSE IF bps > 0 THEN "volume_attack"
                         ELSE IF dst > 0 THEN "scanning"
                         ELSE IF prt > 0 THEN "port_scanning" ELSE None,
        severity |-> overall_severity(pps + bps + dst + prt),
        severity_score |-> pps + bps + dst + prt]

\* self.alert_history[-100:] when the list is longer than 100
last_alerts(log) ==
    IF Len(log) > ALERT_LIMIT THEN SubSeq(log, Len(log) - ALERT_LIMIT + 1, Len(log)) ELSE log

\* one round of the poller thread for device d, whose switch reports stats:
\* aggregate, load the baseline, detect, and handle the anomaly if there is one
FW_poll_flow_statistics(d, stats) ==
    /\ sdn_connected
    /\ d \in DOMAIN devices
    /\ jobs < MaxJobs
    /\ jobs' = jobs + 1
    /\ LET baseline == d \in DOMAIN behavioral_baselines
           found == IF baseline
                    THEN detect_anomalies(behavioral_baselines[d], get_all_device_stats(stats))
                    ELSE detect_without_baseline(get_all_device_stats(stats))
           result == [device_id |-> d, seq |-> jobs + 1, is_anomaly |-> found.is_anomaly,
                      anomaly_type |-> found.anomaly_type, severity |-> found.severity,
                      severity_score |-> found.severity_score]
       IN /\ last_result' = result
          /\ alert_log' = IF baseline /\ result.is_anomaly
                          THEN last_alerts(Append(alert_log, result)) ELSE alert_log
          /\ IF result.is_anomaly
             THEN poll_flow_effects(d, result.severity, baseline)
             ELSE UNCHANGED <<alert_history, device_scores, devices, device_policies,
                              adapter_first, observed>>
    /\ UNCHANGED <<pendingVars, cert_files, ctlVars, resp, ghostVars, sdn_connected, workers,
                   write_log, notif_log, due, first_install, monitorVars, historyVars,
                   profilerVars, tailVars>>

\* a device sending one packet a second for the whole profiling duration
SteadyTraffic == {PROFILING_DURATION}

NextDetector ==
    \/ \E d \in ProfiledDevices : DO_onboard_device(d, DeviceMac(d), TRUE)
    \/ \E d \in ProfiledDevices, k \in SteadyTraffic, size \in PacketSizes :
          record_traffic(d, k, size)
    \/ \E dt \in ProfilingSteps : tick(dt)
    \/ monitoring_loop
    \/ set_sdn_policy_engine
    \/ \E d \in ProfiledDevices, stats \in SwitchStats : FW_poll_flow_statistics(d, stats)

SpecDetector == Init /\ [][NextDetector]_vars

(***************************************************************************)
(* C28: for a device whose finalized baseline is about one packet a        *)
(* second, a rate of 12 packets a second over the 60 s window makes the    *)
(* anomaly tick emit an anomaly event of type dos, severity high and score *)
(* at least 50.                                                            *)
(***************************************************************************)
BaselineOnePps(d) ==
    /\ d \in DOMAIN behavioral_baselines
    /\ behavioral_baselines[d].packet_count = behavioral_baselines[d].profiling_duration
    /\ behavioral_baselines[d].profiling_duration >= PROFILING_DURATION

C28_BurstIsDos ==
    [][\A d \in ProfiledDevices, stats \in SwitchStats :
          (FW_poll_flow_statistics(d, stats) /\ BaselineOnePps(d)
              /\ stats.packets_per_second = 12)
              => /\ last_result'.is_anomaly
                 /\ last_result'.anomaly_type = "dos"
                 /\ last_result'.severity = "high"
                 /\ last_result'.severity_score >= 50]_vars

(***************************************************************************)
(* C29: every anomaly event the detector emits, with a baseline or without *)
(* one, is in the detector's alert history from then on until 100 newer    *)
(* events have displaced it, and the history never holds more than 100     *)
(* events.                                                                 *)
(***************************************************************************)
C29_AlertsRetained ==
    [][/\ Len(alert_log') <= ALERT_LIMIT
       /\ \A d \in ProfiledDevices, stats \in SwitchStats :
            (FW_poll_flow_statistics(d, stats) /\ last_result'.is_anomaly)
                => /\ Len(alert_log') > 0
                   /\ alert_log'[Len(alert_log')] = last_result'
                   /\ \A i \in 1 .. Len(alert_log) :
                         Len(alert_log) - i < ALERT_LIMIT - 1
                             => \E j \in 1 .. Len(alert_log') : alert_log'[j] = alert_log[i]]_vars


(***************************************************************************)
(* C30: the trust score and the status of a device survive a restart: for  *)
(* every device the Trust Scorer holds a score for and the Identity Store  *)
(* reports active and not pending, after the restart the Trust Scorer      *)
(* returns the score it returned before shutdown, the Identity Store still *)
(* reports the device active and the device is not listed as pending.      *)
(***************************************************************************)
ActiveScored(d) ==
    /\ d \in DOMAIN device_scores
    /\ d \in DOMAIN devices
    /\ devices[d].status = "active"
    /\ devices[d].mac \notin get_pending_devices

C30_SurvivesRestart ==
    [][FW_restart =>
          \A d \in TrustDevices :
             ActiveScored(d) => /\ d \in DOMAIN device_scores'
                                /\ device_scores'[d] = device_scores[d]
                                /\ ActiveScored(d)']_vars

(***************************************************************************)
(* Background loops and shutdown (zero_trust_integration.py 157-214,       *)
(* 216-474; controller.py 1817-1835).  Each loop is `while <flag>: work;   *)
(* time.sleep(cadence)`: the flag is read only when the sleep is over.     *)
(***************************************************************************)
ATTESTATION_INTERVAL == 300
JOIN_TIMEOUT == 5

\* the time.sleep at the end of each loop body
Cadence(w) ==
    CASE w = "HoneypotMonitor" -> 10
      [] w = "Attestation" -> ATTESTATION_INTERVAL
      [] w = "PolicyAdapter" -> 60
      [] w = "FlowStatisticsPoller" -> 10
      [] w = "AnalystMonitor" -> 30
      [] w = "ActivityCountUpdater" -> 10

Min(a, b) == IF a < b THEN a ELSE b

loopFrame == <<pendingVars, identityVars, authorized_devices, device_tokens, next_token,
               rateVars, resp, ghostVars, scorerVars, workerVars, monitorVars, historyVars,
               profilerVars, detectorVars, replayVars, attestVars, flowVars, raceVars, callVars>>

\* ZeroTrustFramework.start: set the flag, start the five threads
FW_start ==
    /\ ~running
    /\ exit_deadline = EmptyDict
    /\ running' = TRUE
    /\ loops' = [w \in Loops |-> IF w \in FrameworkLoops THEN [pc |-> "asleep", wake |-> now]
                                 ELSE loops[w]]
    /\ UNCHANGED <<exit_deadline, now, ticks, loopFrame>>

\* controller.py: the updater thread runs `while True`
start_activity_count_updater ==
    /\ loops["ActivityCountUpdater"].pc = "new"
    /\ loops' = [loops EXCEPT !["ActivityCountUpdater"] = [pc |-> "asleep", wake |-> now]]
    /\ UNCHANGED <<running, exit_deadline, now, ticks, loopFrame>>

\* the loop condition of thread w
loop_condition(w) == IF w \in FrameworkLoops THEN running ELSE TRUE

\* a thread whose sleep is over tests its loop condition: another round and
\* another sleep, or the end of the thread
loop_round(w) ==
    /\ loops[w].pc = "asleep"
    /\ now >= loops[w].wake
    /\ loops' = [loops EXCEPT ![w] = IF loop_condition(w)
                                     THEN [pc |-> "asleep", wake |-> now + Cadence(w)]
                                     ELSE [pc |-> "exited", wake |-> 0]]
    /\ UNCHANGED <<running, exit_deadline, now, ticks, loopFrame>>

\* ZeroTrustFramework.stop: clear the flag; thread.join(timeout=5) waits for
\* each thread and gives up after 5 s.  The deadline of a running thread is
\* noted: the end of its sleep or 5 s from now, whichever is sooner.
FW_stop ==
    /\ running
    /\ running' = FALSE
    /\ exit_deadline' = [w \in {x \in Loops : loops[x].pc = "asleep"} |->
                            Min(loops[w].wake, now + JOIN_TIMEOUT)]
    /\ UNCHANGED <<loops, now, ticks, loopFrame>>

\* time passes while the threads sleep; a thread wakes when its sleep is over
SleepSteps == {JOIN_TIMEOUT, 10}

sleep_passes(dt) ==
    /\ ticks < MaxTicks
    /\ \A w \in Loops : loops[w].pc = "asleep" => loops[w].wake >= now + dt
    /\ now' = now + dt
    /\ ticks' = ticks + 1
    /\ UNCHANGED <<running, loops, exit_deadline, loopFrame>>

NextLoops ==
    \/ FW_start
    \/ start_activity_count_updater
    \/ \E w \in Loops : loop_round(w)
    \/ FW_stop
    \/ \E dt \in SleepSteps : sleep_passes(dt)

SpecLoops == Init /\ [][NextLoops]_vars

(***************************************************************************)
(* C31: after stop() every background loop has exited by the end of the    *)
(* sleep it was in or 5 s after the call, whichever is sooner.             *)
(***************************************************************************)
C31_LoopsExitOnShutdown ==
    \A w \in DOMAIN exit_deadline : loops[w].pc # "exited" => now <= exit_deadline[w]

(***************************************************************************)
(* The AnalystMonitor thread (zero_trust_integration.py 401-461): it reads *)
(* the detector's alert history and handles every alert whose id is not in *)
(* its own set processed_alerts.                                           *)
(***************************************************************************)
\* f"{device_id}_{timestamp}_{anomaly_type}"
alert_id(a) == <<a.device_id, a.seq, a.anomaly_type>>

\* the alerts of the history the thread has not handled yet, oldest first
new_alerts(d) ==
    SelectSeq(alert_log, LAMBDA a : /\ a.device_id = d
                                    /\ a.is_anomaly
                                    /\ alert_id(a) \notin processed_alerts)

\* handle_analyst_alert and orchestrate_policy for each of the alerts in turn
RECURSIVE replay_alerts(_, _, _)
replay_alerts(st, d, alerts) ==
    IF alerts = <<>> THEN st
    ELSE replay_alerts(orchestrate_policy(handle_analyst_alert(st, d, Head(alerts).severity),
                                          d, Head(alerts).severity, recent_alerts(d)),
                       d, Tail(alerts))

\* one round of the thread for device d.  The set is cut to 1000 ids when it
\* grows beyond that; the history holds at most 100 alerts.
monitor_analyst_alerts(d) ==
    /\ sdn_connected
    /\ d \in DOMAIN devices
    /\ new_alerts(d) # <<>>
    /\ processed_alerts' = processed_alerts \cup
                              {alert_id(new_alerts(d)[i]) : i \in 1 .. Len(new_alerts(d))}
    /\ Commit(replay_alerts(St(d), d, new_alerts(d)), d)
    /\ observed' = observed \cup {d}
    /\ UNCHANGED <<pendingVars, cert_files, ctlVars, resp, ghostVars, sdn_connected,
                   alert_history, workerVars, monitorVars, historyVars, profilerVars,
                   detectorVars, loopVars, attestVars, flowVars, raceVars, callVars>>

NextReplay ==
    \/ NextDetector
    \/ \E d \in ProfiledDevices : monitor_analyst_alerts(d)

SpecReplay == Init /\ [][NextReplay]_vars

(***************************************************************************)
(* C32: an anomaly event is acted upon once.  Every event in the           *)
(* detector's history was handled by the poller round that emitted it, so  *)
(* a round of the analyst monitor lowers no trust score.                   *)
(***************************************************************************)
C32_EventHandledOnce ==
    [][\A d \in ProfiledDevices : monitor_analyst_alerts(d) => device_scores' = device_scores]_vars

(***************************************************************************)
(* Device attestation (trust_evaluator/device_attestation.py) and the      *)
(* Attestation thread (zero_trust_integration.py 259-293).  A time that is *)
(* None is <<>>, a time t is <<t>>.                                        *)
(***************************************************************************)
\* start_attestation
start_attestation == [last_check |-> <<>>, last_heartbeat |-> <<>>, status |-> "pending"]

attestation_data(d) ==
    IF d \in DOMAIN device_attestations THEN device_attestations[d] ELSE start_attestation

\* check 1: verify_certificate when the device row has a certificate path,
\* skipped (passed) otherwise
certificate_check(d) == devices[d].certificate_path => verify_certificate(d)

\* check 2: a heartbeat was recorded less than two intervals ago
heartbeat_check(d) ==
    /\ attestation_data(d).last_heartbeat # <<>>
    /\ now - attestation_data(d).last_heartbeat[1] < ATTESTATION_INTERVAL * 2

\* perform_attestation: the frequency check is reported and does not count
attestation_passed(d) == certificate_check(d) /\ heartbeat_check(d)

\* one round of the Attestation thread for device d
perform_attestations(d) ==
    /\ d \in DOMAIN devices
    /\ device_attestations' =
          Put(device_attestations, d,
              [attestation_data(d) EXCEPT !.last_check = <<now>>,
                                          !.status = IF attestation_passed(d) THEN "passed"
                                                     ELSE "failed"])
    /\ IF attestation_passed(d)
       THEN UNCHANGED <<device_scores, devices, device_policies, adapter_first, observed>>
       ELSE /\ Commit(adjust_trust_score(St(d), d, ATTESTATION_ADJUSTMENT), d)
            /\ observed' = observed \cup {d}
    /\ UNCHANGED <<pendingVars, cert_files, ctlVars, resp, ghostVars, sdn_connected,
                   alert_history, workerVars, monitorVars, historyVars, profilerVars,
                   detectorVars, loopVars, replayVars, flowVars, raceVars, callVars>>

AttestDevices == {"d1"}
AttestSteps == {RATE_WINDOW, ATTESTATION_INTERVAL}

NextAttest ==
    \/ \E d \in AttestDevices, m \in CtlMacs : onboard_route(d, m, TRUE)
    \/ \E d \in AttestDevices, m \in CtlMacs : get_token(d, m)
    \/ \E d \in AttestDevices, t \in Tokens : data_counted(d, t, "pass")
    \/ \E dt \in AttestSteps : tick(dt)
    \/ \E d \in AttestDevices : perform_attestations(d)

SpecAttest == Init /\ [][NextAttest]_vars

(***************************************************************************)
(* C33: a device that holds a valid credential and whose last data         *)
(* submission was accepted less than one attestation interval ago passes   *)
(* the attestation tick, and the tick leaves its trust score as it was.    *)
(***************************************************************************)
HoldsCredential(d) ==
    /\ d \in DOMAIN devices
    /\ devices[d].status = "active"
    /\ devices[d].certificate_path
    /\ verify_certificate(d)

SubmittedLately(d) ==
    /\ d \in DOMAIN packet_counts
    /\ \E i \in 1 .. Len(packet_counts[d]) : now - packet_counts[d][i] < ATTESTATION_INTERVAL

C33_FreshDevicePasses ==
    [][\A d \in AttestDevices :
          (perform_attestations(d) /\ HoldsCredential(d) /\ SubmittedLately(d))
              => /\ device_attestations'[d].status = "passed"
                 /\ device_scores' = device_scores]_vars

(***************************************************************************)
(* C34: POST /get_token with device id d and MAC m answers with a token    *)
(* only if d is the device id the Identity Store or the pending queue      *)
(* holds for m, or d is on the allow-list.                                 *)
(***************************************************************************)
BoundTo(d, m) ==
    \/ get_device_by_mac(m) = {d}
    \/ (m \in DOMAIN pending_devices /\ pending_devices[m].device_id = d)

C34_TokenForBoundId ==
    [][\A d \in DeviceIds, m \in CtlMacs :
          (get_token(d, m) /\ resp'.code = 200)
              => (BoundTo(d, m) \/ dict_get(authorized_devices, d))]_vars

(***************************************************************************)
(* Flow samples (heuristic_analyst/flow_analyzer.py 140-241): a reply of a *)
(* switch with one flow entry whose match has eth_src = m.                 *)
(***************************************************************************)
FLOW_WINDOW == 100

\* _extract_device_id: the device id the identity module maps the MAC to,
\* else the MAC itself
extract_device_id(m) ==
    IF get_device_by_mac(m) # {} THEN CHOOSE d \in get_device_by_mac(m) : TRUE ELSE m

samples_of(tbl, id) == IF id \in DOMAIN tbl THEN tbl[id] ELSE <<>>

\* self.historical_stats[device_id][-100:] when the list is longer than 100
last_samples(h) ==
    IF Len(h) > FLOW_WINDOW THEN SubSeq(h, Len(h) - FLOW_WINDOW + 1, Len(h)) ELSE h

FlowPackets == {1, 12}

\* _handle_flow_stats_reply for a flow of k packets that lasted one second
handle_flow_stats_reply(m, k) ==
    /\ jobs < MaxJobs
    /\ jobs' = jobs + 1
    /\ LET id == extract_device_id(m)
           flow_stat == [device_id |-> id, timestamp |-> now, packet_count |-> k,
                         packets_per_second |-> k, eth_src |-> m]
       IN /\ flow_stats' = Put(flow_stats, id, Append(samples_of(flow_stats, id), flow_stat))
          /\ historical_stats' =
                Put(historical_stats, id,
                    last_samples(Append(samples_of(historical_stats, id), flow_stat)))
    /\ UNCHANGED <<pendingVars, identityVars, ctlVars, resp, ghostVars, scorerVars, workers,
                   write_log, notif_log, due, first_install, monitorVars, historyVars,
                   profilerVars, detectorVars, loopVars, replayVars, attestVars, raceVars, callVars>>

FlowDevices == {"d1"}

NextFlows ==
    \/ \E d \in FlowDevices, m \in CtlMacs : onboard_route(d, m, TRUE)
    \/ \E m \in Macs, k \in FlowPackets : handle_flow_stats_reply(m, k)
    \/ \E dt \in TickSteps : tick(dt)

SpecFlows == Init /\ [][NextFlows]_vars

(***************************************************************************)
(* C35: a flow sample whose source MAC the Identity Store maps to no       *)
(* device is discarded: no list of samples and no rolling window changes.  *)
(***************************************************************************)
C35_UnknownMacDiscarded ==
    [][\A m \in Macs, k \in FlowPackets :
          (handle_flow_stats_reply(m, k) /\ get_device_by_mac(m) = {})
              => UNCHANGED <<flow_stats, historical_stats>>]_vars

C37_RejectedNotCounted ==
    [][\A d \in RateDevices, t \in Tokens, env \in CountedEnv :
          (data_counted(d, t, env) /\ resp'.code # 200 /\ d \in DOMAIN packet_counts)
              => packet_counts'[d] \in {packet_counts[d], rate_window(packet_counts[d])}]_vars

(***************************************************************************)
(* C38: a row left approved by a failed onboarding does not stay approved  *)
(* forever: a later approve request for its MAC whose onboarding can       *)
(* succeed brings the row to onboarded.                                    *)
(***************************************************************************)
C38_ApprovedRowRecovers ==
    [][\A m \in CtlMacs :
          (approve_route(m, TRUE) /\ RowStatus(m) = STATUS_APPROVED)
              => RowStatus(m)' = STATUS_ONBOARDED]_vars

(***************************************************************************)
(* POST /api/approve_device step by step, with POST /api/reject_device     *)
(* served by another request thread in between (controller.py 1123-1238,   *)
(* 1240-1291; auto_onboarding_service.py 112-192).  approve_device and     *)
(* reject_device are one SQLite transaction each.                          *)
(***************************************************************************)
raceFrame == <<scorerVars, workerVars, monitorVars, historyVars, profilerVars, detectorVars,
               loopVars, replayVars, attestVars, flowVars, callVars>>

ApprovalEnds(outcome, code) ==
    /\ approval' = [approval EXCEPT !.pc = "done", !.outcome = outcome]
    /\ resp' = Resp("approve", code)

\* the route reads the row of the MAC: 400 when there is none
A_Start(m, cert_ok) ==
    /\ approval.pc \in {"idle", "done"}
    /\ IF m \in DOMAIN pending_devices
       THEN /\ approval' = [pc |-> "check", mac |-> m,
                            device_id |-> pending_devices[m].device_id, cert_ok |-> cert_ok,
                            was_pending |-> RowStatus(m) = STATUS_PENDING,
                            outcome |-> "none", reject |-> "none"]
            /\ UNCHANGED resp
       ELSE /\ approval' = [NoApproval EXCEPT !.pc = "done", !.mac = m, !.outcome = "error"]
            /\ resp' = Resp("approve", 400)
    /\ UNCHANGED <<pendingVars, identityVars, ctlVars, ghostVars, raceFrame>>

\* approve_and_onboard reads the row again: error unless its status is pending
A_Check ==
    /\ approval.pc = "check"
    /\ IF RowStatus(approval.mac) = STATUS_PENDING
       THEN /\ approval' = [approval EXCEPT !.pc = "approve",
                                            !.device_id = pending_devices[approval.mac].device_id]
            /\ UNCHANGED resp
       ELSE ApprovalEnds("error", 400)
    /\ UNCHANGED <<pendingVars, identityVars, ctlVars, ghostVars, raceFrame>>

\* pending_manager.approve_device
A_Approve ==
    /\ approval.pc = "approve"
    /\ pending_devices' = approve_device_table(approval.mac)
    /\ device_history' = decision_history(approval.mac, "approved")
    /\ IF approve_device_ok(approval.mac)
       THEN approval' = [approval EXCEPT !.pc = "onboard"] /\ UNCHANGED resp
       ELSE ApprovalEnds("error", 400)
    /\ UNCHANGED <<identityVars, ctlVars, ghostVars, raceFrame>>

\* onboarding_module.onboard_device
A_Onboard ==
    /\ approval.pc = "onboard"
    /\ devices' = onboard_device_devices(approval.device_id, approval.mac, approval.cert_ok)
    /\ cert_files' = onboard_device_files(approval.device_id, approval.cert_ok)
    /\ IF onboard_device_ok(approval.device_id, approval.cert_ok)
       THEN approval' = [approval EXCEPT !.pc = "mark"] /\ UNCHANGED resp
       ELSE ApprovalEnds("error", 400)
    /\ UNCHANGED <<pendingVars, ctlVars, ghostVars, raceFrame>>

\* mark_onboarded, then the route's tracking structures
A_Mark ==
    /\ approval.pc = "mark"
    /\ pending_devices' = mark_onboarded_table(pending_devices, approval.mac)
    /\ authorized_devices' = Put(authorized_devices, approval.device_id, TRUE)
    /\ packet_counts' = init_packet_counts(packet_counts, approval.device_id)
    /\ revoked_since' = revoked_since \ {approval.device_id}
    /\ ApprovalEnds("success", 200)
    /\ UNCHANGED <<device_history, identityVars, device_tokens, now, ticks, next_token,
                   submissions, last_issued, invalidated, raceFrame>>

\* POST /api/reject_device; what it answered is noted when an approval of the
\* same MAC is in progress
reject_request(m) ==
    /\ pending_devices' = reject_device_table(m)
    /\ device_history' = decision_history(m, "rejected")
    /\ resp' = Resp("reject", IF reject_device_ok(m) THEN 200 ELSE 400)
    /\ approval' = IF approval.pc \in {"idle", "done"} \/ approval.mac # m THEN approval
                   ELSE [approval EXCEPT !.reject = IF reject_device_ok(m) THEN "success"
                                                    ELSE IF @ = "none" THEN "error" ELSE @]
    /\ UNCHANGED <<identityVars, ctlVars, ghostVars, raceFrame>>

NextRace ==
    \/ \E d \in DeviceIds, m \in CtlMacs : get_token(d, m)
    \/ \E m \in CtlMacs, c \in BOOLEAN : A_Start(m, c)
    \/ A_Check
    \/ A_Approve
    \/ A_Onboard
    \/ A_Mark
    \/ \E m \in CtlMacs : reject_request(m)

SpecRace == Init /\ [][NextRace]_vars

(***************************************************************************)
(* C39: when an approve request for a pending MAC has ended and a reject   *)
(* request for the same MAC was served while it ran, exactly one of them   *)
(* took effect: either the row is rejected, the reject answered success,   *)
(* the approve answered an error and no identity exists for the MAC or the *)
(* device id, or the row is approved or onboarded and the reject answered  *)
(* an error.                                                               *)
(***************************************************************************)
RaceOver ==
    /\ approval.pc = "done"
    /\ approval.was_pending
    /\ approval.reject # "none"

C39_ApproveXorReject ==
    RaceOver =>
        \/ /\ RowStatus(approval.mac) = STATUS_REJECTED
           /\ approval.reject = "success"
           /\ approval.outcome = "error"
           /\ get_device_by_mac(approval.mac) = {}
           /\ ~get_device(approval.device_id)
        \/ /\ RowStatus(approval.mac) \in {STATUS_APPROVED, STATUS_ONBOARDED}
           /\ approval.reject = "error"

\* the reject was served while the approval ran and won the race
C39_Witness ==
    /\ RaceOver
    /\ approval.outcome = "error"
    /\ RowStatus(approval.mac) = STATUS_REJECTED
    /\ approval.reject = "success"

-----------------------------------------------------------------------------
\* The call structure of the background threads (zero_trust_integration.py,
\* trust_scorer.py, policy_adapter.py, sdn_policy_engine.py, traffic_orchestrator.py).
\* A thread's stack is empty while it sleeps between two rounds of its loop.

\* the function each thread runs as its body
ThreadBody(w) ==
    CASE w = "Attestation" -> "perform_attestations"
      [] w = "PolicyAdapter" -> "adapt_policies"
      [] w = "FlowStatisticsPoller" -> "poll_flow_statistics"
      [] w = "AnalystMonitor" -> "monitor_analyst_alerts"

\* the same call sites, with a listener that asks the orchestrator for a decision
Callees_listener_orchestrates(f) ==
    CASE f = "perform_attestations" -> {"record_attestation_failure"}
      [] f = "adapt_policies" -> {"adapt_policy_for_device"}
      [] f \in {"poll_flow_statistics", "monitor_analyst_alerts"} ->
            {"handle_analyst_alert", "orchestrate_policy"}
      [] f = "handle_analyst_alert" ->
            {"record_security_alert", "sdn_handle_analyst_alert", "adapt_policy_for_device"}
      [] f \in {"record_security_alert", "record_attestation_failure"} ->
            {"adjust_trust_score"}
      [] f = "sdn_handle_analyst_alert" -> {"apply_policy", "adjust_trust_score"}
      [] f = "adjust_trust_score" -> {"initialize_device", "_notify_score_change"}
      [] f = "_notify_score_change" -> {"on_trust_score_change"}
      [] f = "on_trust_score_change" -> {"adapt_policy_for_device", "orchestrate_policy"}
      [] f = "adapt_policy_for_device" -> {"apply_policy"}
      [] f = "orchestrate_policy" -> {"_apply_decision"}
      [] f = "_apply_decision" -> {"apply_policy"}
      [] OTHER -> {}

\* the call sites of each function: the functions it may call while it runs.
\* The only registered trust-change listener is PolicyAdapter.on_trust_score_change.
Callees(f) ==
    CASE f = "perform_attestations" -> {"record_attestation_failure"}
      [] f = "adapt_policies" -> {"adapt_policy_for_device"}
      [] f \in {"poll_flow_statistics", "monitor_analyst_alerts"} ->
            {"handle_analyst_alert", "orchestrate_policy"}
      [] f = "handle_analyst_alert" ->
            {"record_security_alert", "sdn_handle_analyst_alert", "adapt_policy_for_device"}
      [] f \in {"record_security_alert", "record_attestation_failure"} ->
            {"adjust_trust_score"}
      [] f = "sdn_handle_analyst_alert" -> {"apply_policy", "adjust_trust_score"}
      [] f = "adjust_trust_score" -> {"initialize_device", "_notify_score_change"}
      [] f = "_notify_score_change" -> {"on_trust_score_change"}
      [] f = "on_trust_score_change" -> {"adapt_policy_for_device"}
      [] f = "adapt_policy_for_device" -> {"apply_policy"}
      [] f = "orchestrate_policy" -> {"_apply_decision"}
      [] f = "_apply_decision" -> {"apply_policy"}
      [] OTHER -> {}

callFrame == <<scorerVars, workerVars, monitorVars, historyVars, profilerVars, detectorVars,
               loopVars, replayVars, attestVars, flowVars, raceVars>>

\* thread w wakes and enters its body, or the function it is executing calls g
Call(w, g) ==
    /\ IF stacks[w] = <<>> THEN g = ThreadBody(w)
                           ELSE g \in Callees(stacks[w][Len(stacks[w])])
    /\ stacks' = [stacks EXCEPT ![w] = Append(@, g)]
    /\ UNCHANGED <<pendingVars, identityVars, ctlVars, ghostVars, resp, callFrame>>

\* the function thread w is executing returns (the body returns into the sleep)
Return(w) ==
    /\ stacks[w] # <<>>
    /\ stacks' = [stacks EXCEPT ![w] = SubSeq(@, 1, Len(@) - 1)]
    /\ UNCHANGED <<pendingVars, identityVars, ctlVars, ghostVars, resp, callFrame>>

\* every function that appears at a call site above
Functions == {"perform_attestations", "adapt_policies", "poll_flow_statistics",
              "monitor_analyst_alerts", "handle_analyst_alert", "record_security_alert",
              "record_attestation_failure", "sdn_handle_analyst_alert", "adjust_trust_score",
              "initialize_device", "_notify_score_change", "on_trust_score_change",
              "adapt_policy_for_device", "apply_policy", "orchestrate_policy",
              "_apply_decision"}

NextCalls ==
    \/ \E w \in Threads, g \in Functions : Call(w, g)
    \/ \E w \in Threads : Return(w)

SpecCalls == Init /\ [][NextCalls]_vars

Executing(w, f) == \E i \in 1..Len(stacks[w]) : stacks[w][i] = f

\* thread w has invoked g from inside f: f is on its stack below g
InvokedInside(w, g, f) ==
    \E i, j \in 1..Len(stacks[w]) : i < j /\ stacks[w][i] = f /\ stacks[w][j] = g

\* C40 as stated: orchestrate_policy is never being executed by any thread while
\* a trust-change listener is being executed, by that thread or by another one.
C40_NeverDuringListener ==
    \A w1, w2 \in Threads :
        ~(Executing(w1, "on_trust_score_change") /\ Executing(w2, "orchestrate_policy"))

\* C40: no thread invokes orchestrate_policy from inside a trust-change listener it
\* is executing; the orchestrator is called only by the thread bodies themselves,
\* after handle_analyst_alert and every listener it triggered have returned.
C40_NotFromInsideListener ==
    \A w \in Threads : ~InvokedInside(w, "orchestrate_policy", "on_trust_score_change")

\* one thread applies the orchestrator's decision while another thread is inside
\* the listener
C40_Witness ==
    /\ stacks["FlowStatisticsPoller"] =
           <<"poll_flow_statistics", "orchestrate_policy", "_apply_decision", "apply_policy">>
    /\ Executing("Attestation", "on_trust_score_change")

=============================================================================
